---- MODULE Spec2Model ----
(***************************************************************************)
(* SCIL / SASP: cruce quincenal de trabajadores entre entes publicos.      *)
(* Modelo de core/data_processor.py (procesar_archivos, deteccion de        *)
(* cruces), core/database.py (tabla laboral, tabla solventaciones) y del    *)
(* manejador upload_laboral de app.py.                                      *)
(***************************************************************************)
EXTENDS Integers, Sequences, FiniteSets, TLC

\* ------------------------------------------------------------------------
\* Cotas del modelo
\* ------------------------------------------------------------------------
\* filas por RFC en la entrada del detector
MaxFilas == 3
\* peticiones (upload_laboral, actualizar_solventacion) en una ejecucion
MaxPeticiones == 2
\* segundos que avanza el reloj CURRENT_TIMESTAMP
MaxReloj == 1

\* ------------------------------------------------------------------------
\* Valores de Python
\* ------------------------------------------------------------------------
\* None y NaN de pandas, como cadenas reservadas
None == "<None>"
NA == "<NA>"

\* QNA1..QNA24: columnas aceptadas por la expresion regular de la hoja
NumQna == 24
QnaCols == 1..NumQna

\* str(x).strip() sobre las cadenas que aparecen en el modelo
Strip(s) ==
    CASE s = " 0 " -> "0"
      [] s = " no " -> "no"
      [] s = " sepe " -> "sepe"
      [] s = " cupu800825569 " -> "cupu800825569"
      [] s = "   " -> ""
      [] s = " todos " -> "todos"
      [] s = " all " -> "all"
      [] OTHER -> s

\* str.upper() sobre las cadenas que aparecen en el modelo
Upper(s) ==
    CASE s = "no" -> "NO"
      [] s = "si" -> "SI"
      [] s = "none" -> "NONE"
      [] s = "n/a" -> "N/A"
      [] s = "sepe" -> "SEPE"
      [] s = "sefin" -> "SEFIN"
      [] s = "ente_00003" -> "ENTE_00003"
      [] s = "cupu800825569" -> "CUPU800825569"
      [] s = "Secretaría de Finanzas" -> "SECRETARÍA DE FINANZAS"
      [] s = "general" -> "GENERAL"
      [] s = "Secretaría de Gobierno" -> "SECRETARÍA DE GOBIERNO"
      [] s = "Secretaría de Educación Pública" -> "SECRETARÍA DE EDUCACIÓN PÚBLICA"
      [] s = "todos" -> "TODOS"
      [] s = "all" -> "ALL"
      [] s = "segob" -> "SEGOB"
      [] s = "ente_00001" -> "ENTE_00001"
      [] s = "ente_00002" -> "ENTE_00002"
      [] s = "secretaría de finanzas" -> "SECRETARÍA DE FINANZAS"
      [] s = "Secretaria de Finanzas" -> "SECRETARIA DE FINANZAS"
      [] s = "secretaria de finanzas" -> "SECRETARIA DE FINANZAS"
      [] s = "Secretaria de Gobierno" -> "SECRETARIA DE GOBIERNO"
      [] s = "Secretaria de Educacion Publica" -> "SECRETARIA DE EDUCACION PUBLICA"
      [] OTHER -> s

\* bool(x) de Python para None y cadenas
Falsy(x) == x = None \/ x = ""

\* ------------------------------------------------------------------------
\* Ordenamientos (sorted)
\* ------------------------------------------------------------------------
\* Catalogo base de entes (poblar_datos_iniciales): clave, nombre, siglas
Catalogo ==
    << [clave |-> "ENTE_00001", nombre |-> "Secretaría de Gobierno", siglas |-> "SEGOB"],
       [clave |-> "ENTE_00002", nombre |-> "Secretaría de Finanzas", siglas |-> "SEFIN"],
       [clave |-> "ENTE_00003", nombre |-> "Secretaría de Educación Pública", siglas |-> "SEPE"] >>

Claves == {Catalogo[i].clave : i \in DOMAIN Catalogo}

\* posicion de una clave en el orden lexicografico de cadenas
OrdenClave(c) == CHOOSE i \in DOMAIN Catalogo : Catalogo[i].clave = c

\* posicion de "QNA<q>" en el orden lexicografico de cadenas:
\* QNA1 < QNA10 < ... < QNA19 < QNA2 < QNA20 < ... < QNA24 < QNA3 < ...
OrdenQna(q) == IF q < 10 THEN q * 100 ELSE (q \div 10) * 100 + 1 + (q % 10)

RECURSIVE SortedClaves(_)
SortedClaves(S) ==
    IF S = {} THEN <<>>
    ELSE LET m == CHOOSE x \in S : \A y \in S : OrdenClave(x) <= OrdenClave(y)
         IN <<m>> \o SortedClaves(S \ {m})

RECURSIVE SortedQnas(_)
SortedQnas(S) ==
    IF S = {} THEN <<>>
    ELSE LET m == CHOOSE x \in S : \A y \in S : OrdenQna(x) <= OrdenQna(y)
         IN <<m>> \o SortedQnas(S \ {m})

Range(s) == {s[i] : i \in DOMAIN s}

\* ------------------------------------------------------------------------
\* core/data_processor.py
\* ------------------------------------------------------------------------
\* _es_activo(valor)
es_activo(valor) ==
    IF valor = NA \/ valor = None THEN FALSE
    ELSE Upper(Strip(valor)) \notin {"", "0", "0.0", "NO", "N/A", "NA", "NONE"}

\* r["qnas"].get(qna)
QnaGet(r, q) == IF q \in DOMAIN r.qnas THEN r.qnas[q] ELSE None

\* f"{anio_actual}Q{num:02d}"
FechaComun(anio_actual, num) == <<anio_actual, "Q", num \div 10, num % 10>>

\* un hallazgo CRUCE_ENTRE_ENTES_QNA de _cruces_quincenales
HallazgoCruce(rfc, activos, entes_activos, q, anio_actual) ==
    [ rfc |-> rfc,
      nombre |-> activos[1].nombre,
      entes |-> entes_activos,
      fecha_comun |-> FechaComun(anio_actual, q),
      tipo_patron |-> "CRUCE_ENTRE_ENTES_QNA",
      descripcion |-> <<"Activo en más de un ente en la quincena", q>>,
      registros |-> activos,
      estado |-> "Sin valoración",
      solventacion |-> "" ]

\* umbral con el fallo "mas de dos entes"
HayCruceMasDeDos(entes_activos) == Len(entes_activos) > 2

\* umbral de _cruces_quincenales: len(entes_activos) > 1
HayCruce(entes_activos) == Len(entes_activos) > 1

\* activos sin filtrar por quincena
ActivosSinFiltro(registros, q) == registros

\* activos = [r for r in registros if self._es_activo(r["qnas"].get(qna))]
Activos(registros, q) == SelectSeq(registros, LAMBDA r : es_activo(QnaGet(r, q)))

\* entes por fila, sin conjunto ni orden
EntesPorFila(activos) == [i \in DOMAIN activos |-> activos[i].ente]

\* entes_activos = sorted({r["ente"] for r in activos})
EntesActivos(activos) == SortedClaves({r.ente : r \in Range(activos)})

\* cuerpo del bucle "for qna in qnas_presentes" para un RFC
RECURSIVE CrucesDeQnas(_, _, _, _)
CrucesDeQnas(rfc, registros, qnas, anio_actual) ==
    IF qnas = <<>> THEN <<>>
    ELSE LET q == Head(qnas)
             activos == Activos(registros, q)
             entes_activos == EntesActivos(activos)
             h == IF HayCruce(entes_activos)
                  THEN << HallazgoCruce(rfc, activos, entes_activos, q, anio_actual) >>
                  ELSE <<>>
         IN h \o CrucesDeQnas(rfc, registros, Tail(qnas), anio_actual)

\* qnas_presentes = sorted({q for r in registros for q, v in r["qnas"].items() if activo})
QnasPresentes(registros) ==
    SortedQnas({q \in QnaCols : \E r \in Range(registros) :
                    q \in DOMAIN r.qnas /\ es_activo(r.qnas[q])})

\* _cruces_quincenales(entes_rfc); entes_rfc es la lista ordenada de
\* pares (rfc, registros) del diccionario
RECURSIVE cruces_quincenales(_, _)
cruces_quincenales(entes_rfc, anio_actual) ==
    IF entes_rfc = <<>> THEN <<>>
    ELSE LET e == Head(entes_rfc)
             h == IF Len(e.registros) < 2 THEN <<>>
                  ELSE CrucesDeQnas(e.rfc, e.registros, QnasPresentes(e.registros), anio_actual)
         IN h \o cruces_quincenales(Tail(entes_rfc), anio_actual)

\* un registro SIN_DUPLICIDAD de _empleados_sin_cruce
\* hallazgo SIN_DUPLICIDAD que solo conserva la primera fila del RFC
HallazgoSinCrucePrimeraFila(rfc, registros) ==
    [ rfc |-> rfc,
      nombre |-> registros[1].nombre,
      entes |-> << registros[1].ente >>,
      fecha_comun |-> <<>>,
      tipo_patron |-> "SIN_DUPLICIDAD",
      descripcion |-> <<"Empleado sin cruce detectado">>,
      registros |-> << registros[1] >>,
      estado |-> "Sin valoración",
      solventacion |-> "" ]

\* un hallazgo SIN_DUPLICIDAD de _empleados_sin_cruce
HallazgoSinCruce(rfc, registros) ==
    [ rfc |-> rfc,
      nombre |-> registros[1].nombre,
      entes |-> SortedClaves({r.ente : r \in Range(registros)}),
      fecha_comun |-> <<>>,
      tipo_patron |-> "SIN_DUPLICIDAD",
      descripcion |-> <<"Empleado sin cruce detectado">>,
      registros |-> registros,
      estado |-> "Sin valoración",
      solventacion |-> "" ]

\* _empleados_sin_cruce(entes_rfc, hallazgos)
RECURSIVE empleados_sin_cruce(_, _)
empleados_sin_cruce(entes_rfc, hallazgos) ==
    IF entes_rfc = <<>> THEN <<>>
    ELSE LET e == Head(entes_rfc)
             hallados == {h.rfc : h \in Range(hallazgos)}
             f == IF e.rfc \in hallados THEN <<>>
                  ELSE << HallazgoSinCruce(e.rfc, e.registros) >>
         IN f \o empleados_sin_cruce(Tail(entes_rfc), hallazgos)

\* cola de procesar_archivos: resultados = cruces + sin_cruce
Resultados(entes_rfc, anio_actual) ==
    LET cruces == cruces_quincenales(entes_rfc, anio_actual)
    IN cruces \o empleados_sin_cruce(entes_rfc, cruces)

\* limpiar_rfc(rfc): mayusculas, solo [A-Z0-9], longitud 10..13
SoloAlfanum(s) ==
    CASE s = "CUPU-800825-569" -> "CUPU800825569"
      [] OTHER -> s

LongitudRfc(s) ==
    CASE s = "CUPU800825569" -> 13
      [] s = "XAXX010101000" -> 13
      [] s = "ABC123" -> 6
      [] OTHER -> 0

limpiar_rfc(rfc) ==
    IF rfc = NA THEN None
    ELSE LET s == SoloAlfanum(Upper(Strip(rfc)))
         IN IF LongitudRfc(s) >= 10 /\ LongitudRfc(s) <= 13 THEN s ELSE None

\* limpiar_fecha(fecha): ISO YYYY-MM-DD, dia primero en cadenas ambiguas
limpiar_fecha(fecha) ==
    CASE fecha = NA -> None
      [] fecha \in {"", "nan", "nat", "none", "null"} -> None
      [] fecha = "15/01/2020" -> "2020-01-15"
      [] OTHER -> fecha

\* DatabaseManager._sanitize(s): strip, upper y sin acentos
Sanitize(s) ==
    IF Falsy(s) THEN ""
    ELSE LET u == Upper(Strip(s))
         IN CASE u = "SECRETARÍA DE FINANZAS" -> "SECRETARIA DE FINANZAS"
              [] u = "SECRETARÍA DE GOBIERNO" -> "SECRETARIA DE GOBIERNO"
              [] u = "SECRETARÍA DE EDUCACIÓN PÚBLICA" -> "SECRETARIA DE EDUCACION PUBLICA"
              [] OTHER -> u

\* UPPER() de SQLite: solo convierte letras ASCII
SqlUpper(s) ==
    CASE s = "Secretaría de Gobierno" -> "SECRETARíA DE GOBIERNO"
      [] s = "Secretaría de Finanzas" -> "SECRETARíA DE FINANZAS"
      [] s = "Secretaría de Educación Pública" -> "SECRETARíA DE EDUCACIóN PúBLICA"
      [] OTHER -> Upper(s)

\* DatabaseManager.get_mapa_siglas(): {sanitize(sigla): clave}
mapa_siglas == { <<Sanitize(Catalogo[i].siglas), Catalogo[i].clave>> : i \in DOMAIN Catalogo }

\* DatabaseManager.normalizar_ente_clave(valor): SELECT clave ... LIMIT 1
db_normalizar_ente_clave(valor) ==
    IF Falsy(valor) THEN None
    ELSE LET val == Sanitize(valor)
             filas == { i \in DOMAIN Catalogo :
                          \/ SqlUpper(Catalogo[i].siglas) = val
                          \/ SqlUpper(Catalogo[i].nombre) = val
                          \/ SqlUpper(Catalogo[i].clave) = val }
         IN IF filas = {} THEN None
            ELSE Catalogo[CHOOSE i \in filas : \A j \in filas : i <= j].clave

\* DataProcessor.normalizar_ente_clave(etiqueta)
normalizar_ente_clave(etiqueta) ==
    IF Falsy(etiqueta) THEN None
    ELSE LET val == Upper(Strip(etiqueta))
         IN IF \E m \in mapa_siglas : m[1] = val
            THEN (CHOOSE m \in mapa_siglas : m[1] = val)[2]
            ELSE db_normalizar_ente_clave(val)

columnas_base == {"RFC", "NOMBRE", "PUESTO", "FECHA_ALTA", "FECHA_BAJA"}

\* entes_rfc[rfc].append(registro) sobre el diccionario ordenado
AppendRegistro(entes_rfc, rfc, reg) ==
    IF \E i \in DOMAIN entes_rfc : entes_rfc[i].rfc = rfc
    THEN [ i \in DOMAIN entes_rfc |->
             IF entes_rfc[i].rfc = rfc
             THEN [entes_rfc[i] EXCEPT !.registros = Append(@, reg)]
             ELSE entes_rfc[i] ]
    ELSE Append(entes_rfc, [rfc |-> rfc, registros |-> <<reg>>])

\* el registro que procesar_archivos guarda por fila valida
RegistroDeFila(clave_ente, row, qnas) ==
    [ ente |-> clave_ente,
      nombre |-> Strip(row.NOMBRE),
      puesto |-> Strip(row.PUESTO),
      fecha_ingreso |-> limpiar_fecha(row.FECHA_ALTA),
      fecha_egreso |-> limpiar_fecha(row.FECHA_BAJA),
      qnas |-> [ q \in {c \in qnas : es_activo(row.celdas[c])} |-> row.celdas[q] ],
      monto |-> row.TOT_PERC ]

\* bucle "for _, row in df.iterrows()" de una hoja aceptada
RECURSIVE ProcesarFilas(_, _, _, _)
ProcesarFilas(entes_rfc, clave_ente, filas, qnas) ==
    IF filas = <<>> THEN entes_rfc
    ELSE LET row == Head(filas)
             rfc == limpiar_rfc(row.RFC)
             sig == IF Falsy(rfc) THEN entes_rfc
                    ELSE AppendRegistro(entes_rfc, rfc, RegistroDeFila(clave_ente, row, qnas))
         IN ProcesarFilas(sig, clave_ente, Tail(filas), qnas)

Alerta(tipo, hoja, archivo) ==
    [tipo |-> tipo, hoja |-> hoja, archivo |-> archivo]

\* variante sin "continue": la hoja con columnas faltantes deja su alerta y
\* sus filas se procesan igual
RECURSIVE ProcesarHojasSinOmitir(_, _, _)
ProcesarHojasSinOmitir(acc, hojas, nombre_archivo) ==
    IF hojas = <<>> THEN acc
    ELSE LET h == Head(hojas)
             clave_ente == normalizar_ente_clave(Upper(Strip(h.hoja)))
             avisada == IF ~(columnas_base \subseteq h.columnas)
                        THEN [acc EXCEPT !.alertas =
                                Append(@, Alerta("columnas_faltantes", h.hoja, nombre_archivo))]
                        ELSE acc
             sig == IF Falsy(clave_ente)
                    THEN [acc EXCEPT !.alertas =
                            Append(@, Alerta("ente_no_encontrado", h.hoja, nombre_archivo))]
                    ELSE [avisada EXCEPT !.entes_rfc =
                            ProcesarFilas(@, clave_ente, h.filas, h.qnas \cap QnaCols)]
         IN ProcesarHojasSinOmitir(sig, Tail(hojas), nombre_archivo)

\* bucle "for hoja in xl.sheet_names" de un archivo; acc = [entes_rfc, alertas]
RECURSIVE ProcesarHojas(_, _, _)
ProcesarHojas(acc, hojas, nombre_archivo) ==
    IF hojas = <<>> THEN acc
    ELSE LET h == Head(hojas)
             clave_ente == normalizar_ente_clave(Upper(Strip(h.hoja)))
             sig == IF Falsy(clave_ente)
                    THEN [acc EXCEPT !.alertas =
                            Append(@, Alerta("ente_no_encontrado", h.hoja, nombre_archivo))]
                    ELSE IF ~(columnas_base \subseteq h.columnas)
                    THEN [acc EXCEPT !.alertas =
                            Append(@, Alerta("columnas_faltantes", h.hoja, nombre_archivo))]
                    ELSE [acc EXCEPT !.entes_rfc =
                            ProcesarFilas(@, clave_ente, h.filas, h.qnas \cap QnaCols)]
         IN ProcesarHojas(sig, Tail(hojas), nombre_archivo)

\* bucle "for f in archivos"
RECURSIVE LeerArchivos(_, _)
LeerArchivos(acc, archivos) ==
    IF archivos = <<>> THEN acc
    ELSE LeerArchivos(ProcesarHojas(acc, Head(archivos).hojas, Head(archivos).filename),
                      Tail(archivos))

\* procesar_archivos(archivos) -> (resultados, alertas)
procesar_archivos(archivos, anio_actual) ==
    LET acc == LeerArchivos([entes_rfc |-> <<>>, alertas |-> <<>>], archivos)
    IN [ entes_rfc |-> acc.entes_rfc,
         resultados |-> Resultados(acc.entes_rfc, anio_actual),
         alertas |-> acc.alertas ]

\* ------------------------------------------------------------------------
\* core/database.py: tabla laboral
\* ------------------------------------------------------------------------
\* _hash_text(json.dumps(r, sort_keys=True)): huella del contenido canonico
Firma(r) == <<"sha256", r>>

\* r["hash_firma"] = h
ConFirma(r, h) ==
    [ rfc |-> r.rfc, nombre |-> r.nombre, entes |-> r.entes,
      fecha_comun |-> r.fecha_comun, tipo_patron |-> r.tipo_patron,
      descripcion |-> r.descripcion, registros |-> r.registros,
      estado |-> r.estado, solventacion |-> r.solventacion,
      hash_firma |-> h ]

\* SELECT hash_firma FROM laboral
Existentes(tabla) == {tabla[i].hash_firma : i \in DOMAIN tabla}

\* comparacion que da todo por nuevo
EsNuevoSiempre(r, existentes) == TRUE

\* rama "if h not in existentes" de comparar_con_historico
EsNuevo(r, existentes) == Firma(r) \notin existentes

\* comparar_con_historico(nuevos): particion contra las firmas existentes
RECURSIVE Particion(_, _, _)
Particion(nuevos, existentes, acc) ==
    IF nuevos = <<>> THEN acc
    ELSE LET r == Head(nuevos)
             sig == IF EsNuevo(r, existentes)
                    THEN [acc EXCEPT !.nuevos_validos = Append(@, ConFirma(r, Firma(r)))]
                    ELSE [acc EXCEPT !.repetidos = Append(@, r)]
         IN Particion(Tail(nuevos), existentes, sig)

\* comparar_con_historico(nuevos) -> (nuevos_validos, repetidos, len(repetidos));
\* solo lee la tabla (SELECT y close, sin commit)
comparar_con_historico(tabla, nuevos) ==
    LET p == Particion(nuevos, Existentes(tabla),
                       [nuevos_validos |-> <<>>, repetidos |-> <<>>])
    IN [ nuevos_validos |-> p.nuevos_validos,
         repetidos |-> p.repetidos,
         n_rep |-> Len(p.repetidos),
         tabla |-> tabla ]

\* tabla sin restriccion UNIQUE
ViolaUniqueNunca(tabla, h) == FALSE

\* restriccion hash_firma TEXT UNIQUE: el INSERT lanza IntegrityError
ViolaUnique(tabla, h) == \E i \in DOMAIN tabla : tabla[i].hash_firma = h

\* id INTEGER PRIMARY KEY AUTOINCREMENT
SiguienteId(tabla) ==
    IF tabla = <<>> THEN 1
    ELSE 1 + (CHOOSE m \in {tabla[i].id : i \in DOMAIN tabla} :
                \A i \in DOMAIN tabla : tabla[i].id <= m)

FilaLaboral(tabla, r, ahora) ==
    [ id |-> SiguienteId(tabla),
      tipo_analisis |-> r.tipo_patron,
      rfc |-> r.rfc,
      datos |-> r,
      hash_firma |-> r.hash_firma,
      fecha_analisis |-> ahora ]

\* bucle de INSERT de guardar_resultados: IntegrityError -> continue
RECURSIVE InsertarTodos(_, _, _, _)
InsertarTodos(tabla, resultados, count, ahora) ==
    IF resultados = <<>> THEN [tabla |-> tabla, count |-> count]
    ELSE LET r == Head(resultados)
         IN IF ViolaUnique(tabla, r.hash_firma)
            THEN InsertarTodos(tabla, Tail(resultados), count, ahora)
            ELSE InsertarTodos(Append(tabla, FilaLaboral(tabla, r, ahora)),
                               Tail(resultados), count + 1, ahora)

\* valores devueltos, con su tipo de Python
Entero(n) == [tipo |-> "int", valor |-> n]
Tupla(t) == [tipo |-> "tuple", valor |-> t]

\* variante que vacia la tabla antes de insertar
guardar_resultados_borrando(tabla, resultados, ahora) ==
    IF resultados = <<>> THEN [tabla |-> tabla, ret |-> Entero(0)]
    ELSE LET g == InsertarTodos(<<>>, resultados, 0, ahora)
         IN [tabla |-> g.tabla, ret |-> Entero(g.count)]

\* guardar_resultados(resultados) -> count
guardar_resultados(tabla, resultados, ahora) ==
    IF resultados = <<>> THEN [tabla |-> tabla, ret |-> Entero(0)]
    ELSE LET g == InsertarTodos(tabla, resultados, 0, ahora)
         IN [tabla |-> g.tabla, ret |-> Entero(g.count)]

\* ------------------------------------------------------------------------
\* app.py: upload_laboral
\* ------------------------------------------------------------------------
\* "n_guardados, n_dup = ..." solo desempaca un iterable de dos elementos
Desempacable2(v) == v.tipo = "tuple" /\ Len(v.valor) = 2

SinCuerpo ==
    [total_resultados |-> 0, nuevos |-> 0, duplicados |-> 0, alertas |-> <<>>]

\* respuesta de upload_laboral tras guardar (try / except Exception)
RespuestaCarga(resultados, alertas, n_rep, ret) ==
    IF Desempacable2(ret)
    THEN [ status |-> 200, error |-> None,
           cuerpo |-> [ total_resultados |-> Len(resultados),
                        nuevos |-> ret.valor[1],
                        duplicados |-> n_rep + ret.valor[2],
                        alertas |-> alertas ] ]
    ELSE [ status |-> 500, error |-> "Error al procesar archivos: TypeError",
           cuerpo |-> SinCuerpo ]

RespuestaSinArchivos ==
    [status |-> 200, error |-> "No se enviaron archivos", cuerpo |-> SinCuerpo]

\* respuesta de upload_laboral cuando guardar_resultados lanza una excepcion
RespuestaFallo ==
    [ status |-> 500, error |-> "Error al procesar archivos: OperationalError",
      cuerpo |-> SinCuerpo ]

SinRespuesta ==
    [status |-> 0, error |-> None, cuerpo |-> SinCuerpo]

\* ------------------------------------------------------------------------
\* core/database.py: tabla solventaciones
\* ------------------------------------------------------------------------
\* "if not ente: ente = GENERAL" y "if not estado: estado = Sin valoracion"
EnteEfectivo(ente) == IF Falsy(ente) THEN "GENERAL" ELSE ente
EstadoEfectivo(estado) == IF Falsy(estado) THEN "Sin valoración" ELSE estado

\* filas que chocan con UNIQUE(rfc, ente)
EnConflicto(tabla, rfc, ente) == {f \in tabla : f.rfc = rfc /\ f.ente = ente}

SiguienteIdSolv(tabla) ==
    IF tabla = {} THEN 1
    ELSE 1 + (CHOOSE m \in {f.id : f \in tabla} : \A f \in tabla : f.id <= m)

\* INSERT OR IGNORE: el conflicto deja la fila como estaba
UpsertIgnora(tabla, rfc, ente, estado, comentario, ahora) ==
    IF EnConflicto(tabla, rfc, ente) # {} THEN tabla
    ELSE tabla \cup { [ id |-> SiguienteIdSolv(tabla), rfc |-> rfc, ente |-> ente,
                        estado |-> estado, comentario |-> comentario,
                        actualizado |-> ahora ] }

\* INSERT sin ON CONFLICT y sin UNIQUE(rfc, ente): siempre agrega una fila
UpsertSiempreInserta(tabla, rfc, ente, estado, comentario, ahora) ==
    tabla \cup { [ id |-> SiguienteIdSolv(tabla), rfc |-> rfc, ente |-> ente,
                   estado |-> estado, comentario |-> comentario,
                   actualizado |-> ahora ] }

\* INSERT ... ON CONFLICT(rfc, ente) DO UPDATE SET estado, comentario, actualizado
Upsert(tabla, rfc, ente, estado, comentario, ahora) ==
    IF EnConflicto(tabla, rfc, ente) # {}
    THEN { IF f.rfc = rfc /\ f.ente = ente
           THEN [f EXCEPT !.estado = estado, !.comentario = comentario,
                          !.actualizado = ahora]
           ELSE f : f \in tabla }
    ELSE tabla \cup { [ id |-> SiguienteIdSolv(tabla), rfc |-> rfc, ente |-> ente,
                        estado |-> estado, comentario |-> comentario,
                        actualizado |-> ahora ] }

\* actualizar_solventacion(rfc, estado, comentario, ente) -> (tabla, filas)
actualizar_solventacion(tabla, rfc, estado, comentario, ente, ahora) ==
    [ tabla |-> Upsert(tabla, rfc, EnteEfectivo(ente), EstadoEfectivo(estado),
                       comentario, ahora),
      filas |-> 1 ]

\* get_estado_rfc_ente(rfc, ente_clave): los valores que puede devolver
\* SELECT estado ... ORDER BY actualizado DESC LIMIT 1 (empates sin orden)
get_estado_rfc_ente(tabla, rfc, ente_clave) ==
    IF Falsy(rfc) \/ Falsy(ente_clave) THEN {None}
    ELSE LET filas == {f \in tabla : f.rfc = rfc /\ f.ente = ente_clave}
         IN IF filas = {} THEN {None}
            ELSE {f.estado : f \in {g \in filas :
                                      \A k \in filas : k.actualizado <= g.actualizado}}

\* get_solventaciones_por_rfc(rfc): ente -> (estado, comentario)
get_solventaciones_por_rfc(tabla, rfc) ==
    { <<f.ente, f.estado, f.comentario>> : f \in {g \in tabla : g.rfc = rfc} }

\* ------------------------------------------------------------------------
\* core/database.py: lecturas de la tabla laboral
\* ------------------------------------------------------------------------
Reverse(s) == [i \in 1..Len(s) |-> s[Len(s) + 1 - i]]

\* obtener_resultados_paginados("laboral", None, 1, limite):
\* SELECT datos FROM laboral ORDER BY id DESC y json.loads de cada fila
obtener_resultados_paginados(tabla) ==
    [i \in 1..Len(tabla) |-> Reverse(tabla)[i].datos]

\* clave = (ente, puesto, monto, fecha_ingreso, fecha_egreso)
ClaveRegistro(reg) ==
    <<reg.ente, reg.puesto, reg.monto, reg.fecha_ingreso, reg.fecha_egreso>>

\* todos los reg de r["registros"], hallazgo a hallazgo
RECURSIVE RegistrosDe(_)
RegistrosDe(hallazgos) ==
    IF hallazgos = <<>> THEN <<>>
    ELSE Head(hallazgos).registros \o RegistrosDe(Tail(hallazgos))

\* deduplicacion que no recuerda las claves vistas
YaVistoNunca(clave, vistos) == FALSE

\* "if clave not in vistos"
YaVisto(clave, vistos) == clave \in vistos

\* vistos, registros_unicos: se queda con la primera aparicion de cada clave
RECURSIVE RegistrosUnicos(_, _)
RegistrosUnicos(regs, vistos) ==
    IF regs = <<>> THEN <<>>
    ELSE LET clave == ClaveRegistro(Head(regs))
         IN IF YaVisto(clave, vistos)
            THEN RegistrosUnicos(Tail(regs), vistos)
            ELSE << Head(regs) >> \o RegistrosUnicos(Tail(regs), vistos \cup {clave})

\* obtener_resultados_por_rfc(rfc): None o el registro fusionado. La lista
\* "entes" sale de un conjunto de Python y su orden no esta definido: se
\* modela como conjunto
obtener_resultados_por_rfc(tabla, rfc) ==
    LET registros == SelectSeq(obtener_resultados_paginados(tabla),
                               LAMBDA d : SqlUpper(d.rfc) = SqlUpper(rfc))
    IN IF registros = <<>> THEN [nulo |-> TRUE]
       ELSE [ nulo |-> FALSE,
              rfc |-> rfc,
              nombre |-> registros[1].nombre,
              entes |-> UNION { Range(registros[i].entes) : i \in DOMAIN registros },
              registros |-> RegistrosUnicos(RegistrosDe(registros), {}),
              estado |-> registros[Len(registros)].estado,
              solventacion |-> registros[Len(registros)].solventacion ]

\* ------------------------------------------------------------------------
\* app.py: resultados_por_rfc (detalle por RFC con fusion de solventaciones)
\* ------------------------------------------------------------------------
\* mapa_solvs[ente_clave]["estado"] si ente_clave esta en mapa_solvs
EstadoEnte(mapa_solvs, reg) ==
    LET ente_clave == db_normalizar_ente_clave(reg.ente)
        filas == {m \in mapa_solvs : m[1] = ente_clave}
    IN IF filas = {} THEN None ELSE (CHOOSE m \in filas : TRUE)[2]

\* fusion que toma el estado del primer registro
FusionPrimero(estados_regs, estado) ==
    IF estados_regs = {} THEN estado ELSE CHOOSE e \in estados_regs : TRUE

\* len(estados_regs) == 1 -> ese estado; > 1 -> "Mixto"
Fusion(estados_regs, estado) ==
    IF Cardinality(estados_regs) = 1 THEN CHOOSE e \in estados_regs : TRUE
    ELSE IF Cardinality(estados_regs) > 1 THEN "Mixto"
    ELSE estado

\* resultados_por_rfc(rfc): plantilla y datos que recibe
resultados_por_rfc(tabla, solvs, rfc) ==
    LET info == obtener_resultados_por_rfc(tabla, rfc)
    IN IF info.nulo
       THEN [plantilla |-> "empty.html", info |-> info, estado_ente |-> <<>>]
       ELSE LET mapa_solvs == get_solventaciones_por_rfc(solvs, rfc)
            IN IF mapa_solvs # {} /\ info.registros # <<>>
               THEN LET estados_regs ==
                            { IF Falsy(EstadoEnte(mapa_solvs, info.registros[i]))
                              THEN info.estado
                              ELSE EstadoEnte(mapa_solvs, info.registros[i]) :
                                 i \in DOMAIN info.registros } \ {None, ""}
                    IN [plantilla |-> "detalle_rfc.html",
                        info |-> [info EXCEPT !.estado = Fusion(estados_regs, @)],
                        estado_ente |-> [i \in DOMAIN info.registros |->
                                           EstadoEnte(mapa_solvs, info.registros[i])]]
               ELSE [plantilla |-> "detalle_rfc.html", info |-> info,
                     estado_ente |-> [i \in DOMAIN info.registros |-> None]]

\* ------------------------------------------------------------------------
\* app.py: utilidades de permisos y de nombres de ente
\* ------------------------------------------------------------------------
\* _sanitize_text(s): str(s or "").strip().upper()
sanitize_text(s) == IF Falsy(s) THEN "" ELSE Upper(Strip(s))

\* centinela que tambien acepta "ALL"
allowed_all_con_all(entes_usuario) ==
    \E i \in DOMAIN entes_usuario : sanitize_text(entes_usuario[i]) \in {"TODOS", "ALL"}

\* _allowed_all(entes_usuario)
allowed_all(entes_usuario) ==
    \E i \in DOMAIN entes_usuario : sanitize_text(entes_usuario[i]) = "TODOS"

\* _entes_cache(): entes UNION ALL municipios (la tabla municipios nace vacia)
entes_cache ==
    [ i \in DOMAIN Catalogo |->
        [ k |-> Upper(Strip(Catalogo[i].clave)),
          siglas |-> Upper(Strip(Catalogo[i].siglas)),
          nombre |-> Upper(Strip(Catalogo[i].nombre)) ] ]

\* {d["siglas"], d["nombre"], k}
Alias(d) == {d.siglas, d.nombre, d.k}

\* _ente_match(ente_usuario, clave_lista)
ente_match(ente_usuario, clave_lista) ==
    \E j \in DOMAIN clave_lista, i \in DOMAIN entes_cache :
        /\ sanitize_text(ente_usuario) \in Alias(entes_cache[i])
        /\ sanitize_text(clave_lista[j]) \in Alias(entes_cache[i])

\* primera entrada del cache que reconoce s
EntradaDe(s) ==
    LET I == { i \in DOMAIN entes_cache : s \in Alias(entes_cache[i]) }
    IN IF I = {} THEN 0 ELSE CHOOSE i \in I : \A j \in I : i <= j

\* _ente_sigla(clave)
ente_sigla(clave) ==
    IF Falsy(clave) THEN ""
    ELSE LET s == sanitize_text(clave)
             i == EntradaDe(s)
         IN IF i = 0 THEN s
            ELSE IF entes_cache[i].siglas # "" THEN entes_cache[i].siglas
            ELSE IF entes_cache[i].nombre # "" THEN entes_cache[i].nombre
            ELSE s

\* _ente_display(v)
ente_display(v) ==
    IF Falsy(v) THEN "Sin Ente"
    ELSE LET i == EntradaDe(sanitize_text(v))
         IN IF i = 0 THEN v
            ELSE IF entes_cache[i].siglas # "" THEN entes_cache[i].siglas
            ELSE IF entes_cache[i].nombre # "" THEN entes_cache[i].nombre
            ELSE v

\* permiso del usuario sobre un ente, como lo evalua reporte_por_ente
Autorizado(entes_usuario, e) ==
    \/ allowed_all(entes_usuario)
    \/ \E i \in DOMAIN entes_usuario : ente_match(entes_usuario[i], << e >>)

\* ------------------------------------------------------------------------
\* app.py: reporte_por_ente (vista agrupada por ente)
\* ------------------------------------------------------------------------
\* lista ascendente de un conjunto de naturales
RECURSIVE Ascendente(_)
Ascendente(S) ==
    IF S = {} THEN <<>>
    ELSE LET m == CHOOSE x \in S : \A y \in S : x <= y
         IN << m >> \o Ascendente(S \ {m})

\* qnas_por_ente[ente] = set(reg["qnas"].keys()): queda la ultima fila del ente
QnasPorEnte(registros, e) ==
    LET I == { i \in DOMAIN registros : registros[i].ente = e }
        u == CHOOSE i \in I : \A j \in I : j <= i
    IN DOMAIN registros[u].qnas

\* todos los entes de los registros, sin comprobar la interseccion
entes_cruce_sin_interseccion(r) == { reg.ente : reg \in Range(r.registros) }

\* entes_cruce_real: entes con alguna quincena en comun con otro ente
entes_cruce_real(r) ==
    LET entes == { reg.ente : reg \in Range(r.registros) }
    IN { e \in entes : \E e2 \in entes \ {e} :
            QnasPorEnte(r.registros, e) \cap QnasPorEnte(r.registros, e2) # {} }

\* puesto: r.get("puesto") no existe en los hallazgos; union de los puestos
\* de los registros (el orden del join sale de un conjunto) o "Sin puesto"
PuestoDe(r) ==
    LET ps == { Strip(reg.puesto) : reg \in { x \in Range(r.registros) : ~Falsy(x.puesto) } }
    IN IF ps = {} THEN {"Sin puesto"} ELSE ps

\* entes de r por los que el usuario ve el hallazgo bajo nombre_ente
EntesQueListan(r, entes_usuario, nombre_ente) ==
    { e \in entes_cruce_real(r) :
        Autorizado(entes_usuario, e) /\ ente_display(e) = nombre_ente }

\* r["entes"] sin el ente actual
OtrosEntes(r, e) ==
    { i \in DOMAIN r.entes : sanitize_text(r.entes[i]) # sanitize_text(e) }

\* est or estado_default para un ente de r
EstadoDeEnte(solvs, r, en) ==
    LET mapa_solvs == get_solventaciones_por_rfc(solvs, r.rfc)
        clave == db_normalizar_ente_clave(en)
        filas == { m \in mapa_solvs : m[1] = clave }
        est == IF filas = {} THEN None ELSE (CHOOSE m \in filas : TRUE)[2]
    IN IF Falsy(est) THEN r.estado ELSE est

\* agrupado[ente_nombre][rfc] tras recorrer todos los resultados
FilaAgrupada(res, solvs, entes_usuario, nombre_ente, rfc) ==
    LET I == { i \in DOMAIN res :
                 res[i].rfc = rfc /\ EntesQueListan(res[i], entes_usuario, nombre_ente) # {} }
        primero == CHOOSE i \in I : \A j \in I : i <= j
        ente(i) == CHOOSE e \in EntesQueListan(res[i], entes_usuario, nombre_ente) : TRUE
        aportes == UNION { { <<i, k>> : k \in OtrosEntes(res[i], ente(i)) } : i \in I }
        siglas == { ente_sigla(res[a[1]].entes[a[2]]) : a \in aportes }
        ultimo(sig) ==
            CHOOSE a \in aportes :
               /\ ente_sigla(res[a[1]].entes[a[2]]) = sig
               /\ \A b \in aportes :
                     ente_sigla(res[b[1]].entes[b[2]]) = sig =>
                        (b[1] < a[1] \/ (b[1] = a[1] /\ b[2] <= a[2]))
    IN [ rfc |-> rfc,
         nombre |-> res[primero].nombre,
         puesto |-> PuestoDe(res[primero]),
         entes |-> siglas,
         estado |-> res[primero].estado,
         estado_entes |->
            { << sig, EstadoDeEnte(solvs, res[ultimo(sig)[1]],
                                   res[ultimo(sig)[1]].entes[ultimo(sig)[2]]) >> :
                 sig \in siglas } ]

\* listar_entes(): entes activos; ente_nombre = siglas o nombre
NombreCatalogo(i) ==
    IF ~Falsy(Catalogo[i].siglas) THEN Catalogo[i].siglas ELSE Catalogo[i].nombre

\* reporte_por_ente(): lo que recibe la plantilla resultados.html
reporte_por_ente(tabla, solvs, entes_usuario) ==
    LET res == obtener_resultados_paginados(tabla)
        con_filas == { ente_display(e) :
                         e \in { x \in UNION { entes_cruce_real(res[i]) : i \in DOMAIN res } :
                                   Autorizado(entes_usuario, x) } }
        permitidos == { i \in DOMAIN Catalogo :
                          \/ allowed_all(entes_usuario)
                          \/ \E t \in DOMAIN entes_usuario :
                                ente_match(entes_usuario[t], << Catalogo[i].clave >>) }
        del_catalogo == { NombreCatalogo(i) : i \in permitidos }
        primeros(n) == { i \in DOMAIN res :
                           /\ EntesQueListan(res[i], entes_usuario, n) # {}
                           /\ \A j \in 1..(i - 1) :
                                 ~(res[j].rfc = res[i].rfc
                                   /\ EntesQueListan(res[j], entes_usuario, n) # {}) }
        filas(n) == LET orden == Ascendente(primeros(n))
                    IN [ k \in DOMAIN orden |->
                           FilaAgrupada(res, solvs, entes_usuario, n, res[orden[k]].rfc) ]
        total(n) == Cardinality(UNION { { <<i, j>> : j \in { x \in DOMAIN res[i].registros :
                                            /\ ~Falsy(res[i].registros[x].ente)
                                            /\ ente_display(res[i].registros[x].ente) = n } } :
                                        i \in DOMAIN res })
        info(i) == [ siglas |-> Catalogo[i].siglas,
                     nombre_completo |-> Catalogo[i].nombre,
                     total |-> total(NombreCatalogo(i)),
                     duplicados |-> Len(filas(NombreCatalogo(i))) ]
    IN [ resultados |-> [ n \in con_filas \cup del_catalogo |-> filas(n) ],
         entes_info |-> [ n \in del_catalogo |->
                            info(CHOOSE i \in permitidos : NombreCatalogo(i) = n) ],
         entes_con_datos |->
            { n \in del_catalogo :
                LET d == info(CHOOSE i \in permitidos : NombreCatalogo(i) = n)
                IN d.total > 0 /\ d.duplicados = 0 } ]

\* ------------------------------------------------------------------------
\* app.py: exportacion plana (_construir_filas_export)
\* ------------------------------------------------------------------------
\* _estatus_label(v) sobre los estados que aparecen en el modelo: minusculas,
\* "no" -> No Solventado, "solvent" -> Solventado, el resto Sin valoracion
estatus_label(v) ==
    CASE Falsy(v) -> "Sin valoración"
      [] v = "No Solventado" -> "No Solventado"
      [] v = "Solventado" -> "Solventado"
      [] OTHER -> "Sin valoración"

\* ente_origen = reg.get("ente") or "Sin Ente"
EnteOrigen(reg) == IF Falsy(reg.ente) THEN "Sin Ente" ELSE reg.ente

\* key = (rfc, ente_origen saneado, puesto, fecha_ingreso, fecha_egreso, monto)
ClaveExport(r, reg) ==
    << r.rfc, sanitize_text(EnteOrigen(reg)), reg.puesto,
       reg.fecha_ingreso, reg.fecha_egreso, reg.monto >>

\* "for r in resultados: for reg in r['registros']" en el orden del recorrido
RECURSIVE ParesExport(_)
ParesExport(resultados) ==
    IF resultados = <<>> THEN <<>>
    ELSE LET r == Head(resultados)
         IN [ i \in DOMAIN r.registros |-> [r |-> r, reg |-> r.registros[i]] ]
               \o ParesExport(Tail(resultados))

\* claves de "agregados" en orden de insercion
RECURSIVE ClavesExport(_, _)
ClavesExport(pares, vistas) ==
    IF pares = <<>> THEN <<>>
    ELSE LET k == ClaveExport(Head(pares).r, Head(pares).reg)
         IN IF k \in vistas THEN ClavesExport(Tail(pares), vistas)
            ELSE << k >> \o ClavesExport(Tail(pares), vistas \cup {k})

\* _qnas_set: las claves "QNAn" de reg["qnas"] de cada aparicion del registro,
\* convertidas a entero (la columna QNAn se representa por n)
QnasSet(mias) == UNION { DOMAIN mias[i].reg.qnas : i \in DOMAIN mias }

\* _entes_incomp_set: entes del hallazgo distintos del ente de origen
EntesIncompSet(mias) ==
    UNION { { e \in Range(mias[i].r.entes) :
                sanitize_text(e) # sanitize_text(EnteOrigen(mias[i].reg)) } :
            i \in DOMAIN mias }

\* columna Quincenas: texto fijo o lista "QNAi, QNAj, ..." en orden numerico
Quincenas(qnas_set) ==
    IF Cardinality(qnas_set) >= 24
    THEN [texto |-> "Activo en Todo el Ejercicio", qnas |-> <<>>]
    ELSE IF qnas_set # {}
    THEN [texto |-> "QNA", qnas |-> Ascendente(qnas_set)]
    ELSE [texto |-> "N/A", qnas |-> <<>>]

\* est_final sin consultar la tabla de solventaciones
EstatusFinalSoloBase(solvs, rfc, ente_clave, estado_base) == {estado_base}

\* est_final = get_estado_rfc_ente(rfc, ente_clave) or _estado_base:
\* los valores que puede tomar
EstatusFinal(solvs, rfc, ente_clave, estado_base) ==
    { IF Falsy(e) THEN estado_base ELSE e :
        e \in get_estado_rfc_ente(solvs, rfc, ente_clave) }

\* solventacion_final = mapa_coment.get((rfc, ente_clave)) or _solventacion
SolventacionFinal(solvs, rfc, ente_clave, solventacion) ==
    LET filas == { f \in solvs : f.rfc = rfc /\ f.ente = ente_clave }
    IN IF filas = {} THEN {solventacion}
       ELSE { IF Falsy(f.comentario) THEN solventacion ELSE f.comentario : f \in filas }

\* una fila exportable; "Entes Incompatibilidad" es el conjunto de siglas
\* (vacio: "Sin otros entes") y Estatus y Solventacion los valores posibles
FilaExport(pares, solvs, k) ==
    LET mias == SelectSeq(pares, LAMBDA p : ClaveExport(p.r, p.reg) = k)
        item == mias[1]
        ente_origen_raw == EnteOrigen(item.reg)
        ente_clave == db_normalizar_ente_clave(ente_origen_raw)
    IN [ RFC |-> item.r.rfc,
         Nombre |-> item.r.nombre,
         Puesto |-> item.reg.puesto,
         FechaAlta |-> item.reg.fecha_ingreso,
         FechaBaja |-> item.reg.fecha_egreso,
         TotalPercepciones |-> item.reg.monto,
         EnteOrigen |-> ente_display(ente_origen_raw),
         ente_origen_raw |-> ente_origen_raw,
         EntesIncompatibilidad |-> { ente_sigla(e) : e \in EntesIncompSet(mias) },
         Quincenas |-> Quincenas(QnasSet(mias)),
         Estatus |-> EstatusFinal(solvs, item.r.rfc, ente_clave,
                                  estatus_label(item.r.estado)),
         Solventacion |-> SolventacionFinal(solvs, item.r.rfc, ente_clave,
                                            item.r.solventacion) ]

\* _construir_filas_export(resultados)
construir_filas_export(resultados, solvs) ==
    LET pares == ParesExport(resultados)
        claves == ClavesExport(pares, {})
    IN [ i \in DOMAIN claves |-> FilaExport(pares, solvs, claves[i]) ]

\* exportar_excel_general con formato=json
exportar_excel_general(tabla, solvs) ==
    LET filas == construir_filas_export(obtener_resultados_paginados(tabla), solvs)
    IN IF filas = <<>> THEN [status |-> 404, datos |-> <<>>]
       ELSE [status |-> 200, datos |-> filas]

\* exportar_por_ente con formato=json
exportar_por_ente(tabla, solvs, ente_sel) ==
    IF Strip(ente_sel) = "" THEN [status |-> 400, datos |-> <<>>]
    ELSE LET todas == construir_filas_export(obtener_resultados_paginados(tabla), solvs)
             filas == SelectSeq(todas, LAMBDA f : ente_match(Strip(ente_sel), << f.EnteOrigen >>))
         IN IF filas = <<>> THEN [status |-> 404, datos |-> <<>>]
            ELSE [status |-> 200, datos |-> filas]

\* ------------------------------------------------------------------------
\* Entradas
\* ------------------------------------------------------------------------
RFC1 == "CUPU800825569"
RFC2 == "XAXX010101000"

\* quincenas activas de una fila de entrada
PatronesQna == { {}, {3}, {2, 10}, 1..12 }

NombreEn(e) ==
    CASE e = "ENTE_00001" -> "CUPUL PUC A"
      [] e = "ENTE_00002" -> "CUPUL PUC B"
      [] OTHER -> "CUPUL PUC C"

\* un registro tal como lo deja procesar_archivos (solo celdas activas)
RegistroEntrada(e, activas) ==
    [ ente |-> e, nombre |-> NombreEn(e), puesto |-> "AUXILIAR",
      fecha_ingreso |-> "2020-01-15", fecha_egreso |-> None,
      qnas |-> [q \in activas |-> "1"], monto |-> "1000" ]

RegistrosEntrada == { RegistroEntrada(e, S) : e \in Claves, S \in PatronesQna }

ListasDeRegistros == UNION { [1..k -> RegistrosEntrada] : k \in 1..MaxFilas }

\* un segundo RFC en el mismo lote: ausente, con una fila, o con un cruce
OtrosRfc ==
    { <<>>,
      << [rfc |-> RFC2, registros |-> << RegistroEntrada("ENTE_00001", {3}) >>] >>,
      << [rfc |-> RFC2, registros |-> << RegistroEntrada("ENTE_00001", {3}),
                                         RegistroEntrada("ENTE_00002", {3}) >>] >> }

\* el RFC de una sola fila llega antes y el RFC que cruza llega despues
EntradasDetector ==
    { IF Len(o) = 1 /\ Len(o[1].registros) = 1
      THEN o \o << [rfc |-> RFC1, registros |-> rs] >>
      ELSE << [rfc |-> RFC1, registros |-> rs] >> \o o :
        rs \in ListasDeRegistros, o \in OtrosRfc }

\* una fila de hoja: celdas "1" en las quincenas activas y "0" en las demas
Fila(rfc, nombre, cols, activas) ==
    [ RFC |-> rfc, NOMBRE |-> nombre, PUESTO |-> "AUXILIAR",
      FECHA_ALTA |-> "15/01/2020", FECHA_BAJA |-> NA, TOT_PERC |-> "1000",
      celdas |-> [q \in cols |-> IF q \in activas THEN "1" ELSE "0"] ]

Hoja(etiqueta, columnas, cols, filas) ==
    [hoja |-> etiqueta, columnas |-> columnas, qnas |-> cols, filas |-> filas]

Libro(nombre, hojas) == [filename |-> nombre, hojas |-> hojas]

\* escenario 1: SEPE y SEFIN listan el mismo RFC activo en QNA3
LibroCruce ==
    Libro("cruce.xlsx",
      << Hoja("SEPE", columnas_base, {3, 5}, << Fila(RFC1, "CUPUL PUC C", {3, 5}, {3}) >>),
         Hoja("SEFIN", columnas_base, {3, 5}, << Fila(RFC1, "CUPUL PUC B", {3, 5}, {3}) >>) >>)

EnvioCruce == << LibroCruce >>

\* escenario 2: SEPE lista el mismo RFC dos veces en QNA5
EnvioMismoEnte ==
    << Libro("mismo.xlsx",
         << Hoja("SEPE", columnas_base, {3, 5},
               << Fila(RFC1, "CUPUL PUC C", {3, 5}, {5}),
                  Fila(" cupu800825569 ", "CUPUL PUC C", {3, 5}, {5}) >>) >>) >>

\* dos archivos: el libro del escenario 1 y un segundo RFC que cruza en
\* QNA2 y QNA10 entre SEGOB y SEFIN
EnvioDosRfc ==
    << LibroCruce,
       Libro("dos.xlsx",
         << Hoja("SEGOB", columnas_base, {2, 10},
               << Fila(RFC2, "XOCHITL A", {2, 10}, {2, 10}) >>),
            Hoja("sefin", columnas_base, {2, 10},
               << Fila(RFC2, "XOCHITL B", {2, 10}, {2, 10}) >>) >>) >>

\* hoja fuera del catalogo, hoja sin columnas requeridas y una hoja valida
EnvioAlertas ==
    << Libro("alertas.xlsx",
         << Hoja("FOO", columnas_base, {3}, << Fila(RFC1, "CUPUL PUC X", {3}, {3}) >>),
            Hoja("SEFIN", {"RFC", "NOMBRE"}, {3}, << Fila(RFC1, "CUPUL PUC B", {3}, {3}) >>),
            Hoja("SEPE", columnas_base, {3},
               << Fila("ABC123", "CORTO", {3}, {3}),
                  Fila(RFC2, "XOCHITL C", {3}, {3}) >>) >>) >>

\* SEPE lista el RFC activo en QNA3 y QNA5; SEFIN solo en QNA3
EnvioQuincenas ==
    << Libro("quincenas.xlsx",
         << Hoja("SEPE", columnas_base, {3, 5}, << Fila(RFC1, "CUPUL PUC C", {3, 5}, {3, 5}) >>),
            Hoja("SEFIN", columnas_base, {3, 5}, << Fila(RFC1, "CUPUL PUC B", {3, 5}, {3}) >>) >>) >>

\* el cruce del escenario 1 repartido en dos cargas: solo la hoja SEPE
EnvioSoloSepe ==
    << Libro("sepe.xlsx",
         << Hoja("SEPE", columnas_base, {3, 5}, << Fila(RFC1, "CUPUL PUC C", {3, 5}, {3}) >>) >>) >>

\* ... y solo la hoja SEFIN
EnvioSoloSefin ==
    << Libro("sefin.xlsx",
         << Hoja("SEFIN", columnas_base, {3, 5}, << Fila(RFC1, "CUPUL PUC B", {3, 5}, {3}) >>) >>) >>

\* el RFC esta en SEPE (activo en QNA3) y en SEFIN (activo en QNA5): sin cruce
EnvioSinCruce ==
    << Libro("sincruce.xlsx",
         << Hoja("SEPE", columnas_base, {3, 5}, << Fila(RFC1, "CUPUL PUC C", {3, 5}, {3}) >>),
            Hoja("SEFIN", columnas_base, {3, 5}, << Fila(RFC1, "CUPUL PUC B", {3, 5}, {5}) >>) >>) >>

\* cargas de la especificacion de cargas repartidas
EnviosPartes == { EnvioSoloSepe, EnvioSoloSefin, EnvioSinCruce, EnvioCruce }

\* cargas, RFC y cuerpos de peticion de la especificacion de lecturas
EnviosLectura == { EnvioCruce, EnvioMismoEnte, EnvioDosRfc, EnvioQuincenas }
RfcLectura == {RFC1, RFC2}
EstadosPeticion == {None, "Solventado", "No Solventado", "Mixto"}
EntesPeticion == {None, "ENTE_00002", "ENTE_00003"}

\* request.files.getlist("files")
Envios == { <<>>, EnvioCruce, EnvioMismoEnte, EnvioDosRfc, EnvioAlertas }

\* argumentos de actualizar_solventacion que llegan de las rutas
RfcSolv == {RFC1}
EntesSolv == {None, "", "ENTE_00002"}
EstadosSolv == {None, "Solventado", "No Solventado"}
ComentariosSolv == {"", "ok"}

\* ejercicios fiscales (datetime.now().year)
Anios == {2025, 2026}

\* procesar_archivos sobre cada envio y ejercicio (tabla de valores)
Procesado ==
    [a \in (Envios \cup EnviosLectura \cup EnviosPartes) \ {<<>>}, y \in Anios |->
        procesar_archivos(a, y)]

\* manejadores concurrentes de peticiones
Procs == {"p1", "p2"}

\* ------------------------------------------------------------------------
\* Estado
\* ------------------------------------------------------------------------
VARIABLES
    anio,            \* datetime.now().year
    reloj,           \* CURRENT_TIMESTAMP
    laboral,         \* tabla laboral, en orden de insercion
    solventaciones,  \* tabla solventaciones
    pc,              \* posicion de cada upload_laboral
    loc,             \* variables locales de cada upload_laboral
    peticiones,      \* peticiones atendidas
    hechas,          \* cargas terminadas: (archivos, anio)
    ultima,          \* ultima llamada a actualizar_solventacion
    ult_par,         \* ultima actualizacion confirmada por (rfc, ente)
    det_fase,        \* detector: posicion
    det_entrada,     \* detector: entes_rfc
    det_salida,      \* detector: hallazgos
    lectura,         \* peticion de la ultima lectura, sin escrituras posteriores
    alias,           \* resolucion de una etiqueta de hoja
    web              \* sesion del cliente y respuesta del middleware

vars == << anio, reloj, laboral, solventaciones, pc, loc, peticiones, hechas,
           ultima, ult_par, det_fase, det_entrada, det_salida, lectura, alias, web >>

LocInicial ==
    [ archivos |-> <<>>, anio |-> 0, previa |-> FALSE,
      resultados |-> <<>>, alertas |-> <<>>,
      nuevos_res |-> <<>>, repetidos |-> <<>>, n_rep |-> 0,
      tabla_antes |-> <<>>, ret |-> Entero(0), respuesta |-> SinRespuesta,
      fallo |-> 0 ]

SinLlamada ==
    [rfc |-> None, estado |-> None, comentario |-> None, ente |-> None, filas |-> 0]

\* ninguna lectura respondida desde la ultima escritura
SinLectura == [op |-> "ninguna", rfc |-> None, tokens |-> <<>>, ente |-> None]

\* ninguna etiqueta en resolucion
SinAlias ==
    [fase |-> "ninguna", etiqueta |-> None, entrada |-> 0, tipo |-> "ninguno",
     activas |-> {}, clave |-> None, hallazgos |-> <<>>]

\* session de Flask y lo que el middleware contesto a la ultima peticion
SinSesion ==
    [ autenticado |-> FALSE, usuario |-> None, status |-> 0, destino |-> None,
      endpoint |-> None, xhr |-> FALSE ]
SesionIniciada ==
    [ autenticado |-> TRUE, usuario |-> "odilia", status |-> 302, destino |-> "dashboard",
      endpoint |-> "login", xhr |-> FALSE ]

InitComun ==
    /\ reloj = 0
    /\ alias = SinAlias
    /\ laboral = <<>>
    /\ solventaciones = {}
    /\ pc = [p \in Procs |-> "libre"]
    /\ loc = [p \in Procs |-> LocInicial]
    /\ peticiones = 0
    /\ hechas = {}
    /\ ultima = SinLlamada
    /\ ult_par = {}
    /\ lectura = SinLectura

\* las especificaciones de los manejadores parten de un cliente con sesion
Init ==
    /\ anio \in Anios
    /\ InitComun
    /\ web = SesionIniciada
    /\ det_fase = "fin"
    /\ det_entrada = <<>>
    /\ det_salida = <<>>

\* ------------------------------------------------------------------------
\* upload_laboral: una peticion por proceso, en tres pasos
\* ------------------------------------------------------------------------
\* files vacio -> "No se enviaron archivos"; si no, procesar_archivos(files)
Procesar(p, archivos) ==
    /\ pc[p] = "libre"
    /\ peticiones < MaxPeticiones
    /\ peticiones' = peticiones + 1
    /\ IF archivos = <<>>
       THEN /\ loc' = [loc EXCEPT ![p] = [LocInicial EXCEPT !.anio = anio,
                                            !.respuesta = RespuestaSinArchivos]]
            /\ pc' = pc
       ELSE LET r == Procesado[archivos, anio]
            IN /\ loc' = [loc EXCEPT ![p] =
                            [LocInicial EXCEPT !.archivos = archivos,
                                               !.anio = anio,
                                               !.previa = (<<archivos, anio>> \in hechas),
                                               !.resultados = r.resultados,
                                               !.alertas = r.alertas]]
               /\ pc' = [pc EXCEPT ![p] = "procesado"]
    /\ UNCHANGED << anio, reloj, laboral, solventaciones, hechas, ultima, ult_par,
                    det_fase, det_entrada, alias, web, det_salida, lectura >>

\* nuevos_res, repetidos, n_rep = comparar_con_historico(resultados)
Comparar(p) ==
    /\ pc[p] = "procesado"
    /\ LET c == comparar_con_historico(laboral, loc[p].resultados)
       IN /\ loc' = [loc EXCEPT ![p].nuevos_res = c.nuevos_validos,
                                ![p].repetidos = c.repetidos,
                                ![p].n_rep = c.n_rep]
          /\ laboral' = c.tabla
    /\ pc' = [pc EXCEPT ![p] = "comparado"]
    /\ UNCHANGED << anio, reloj, solventaciones, peticiones, hechas, ultima,
                    ult_par, det_fase, det_entrada, alias, web, det_salida, lectura >>

\* n_guardados, n_dup = guardar_resultados(nuevos_res); respuesta JSON o 500
Guardar(p) ==
    /\ pc[p] = "comparado"
    /\ LET g == guardar_resultados(laboral, loc[p].nuevos_res, reloj)
       IN /\ laboral' = g.tabla
          /\ loc' = [loc EXCEPT ![p].tabla_antes = laboral,
                                ![p].ret = g.ret,
                                ![p].respuesta =
                                    RespuestaCarga(loc[p].resultados, loc[p].alertas,
                                                   loc[p].n_rep, g.ret)]
    /\ pc' = [pc EXCEPT ![p] = "libre"]
    /\ hechas' = hechas \cup { <<loc[p].archivos, loc[p].anio>> }
    /\ lectura' = SinLectura
    /\ UNCHANGED << anio, reloj, solventaciones, peticiones, ultima, ult_par,
                    det_fase, det_entrada, alias, web, det_salida >>

\* guardar_resultados cuando el INSERT numero k lanza un error de SQLite que
\* no es IntegrityError (base bloqueada, disco lleno): la excepcion sale del
\* bucle antes de conn.commit(), la conexion se descarta con su transaccion
\* abierta y ningun INSERT de la llamada queda en la tabla
guardar_resultados_con_fallo(tabla, resultados, k, ahora) == tabla

\* upload_laboral cuando guardar_resultados falla en el INSERT numero k
GuardarConFallo(p, k) ==
    /\ pc[p] = "comparado"
    /\ k \in DOMAIN loc[p].nuevos_res
    /\ laboral' = guardar_resultados_con_fallo(laboral, loc[p].nuevos_res, k, reloj)
    /\ loc' = [loc EXCEPT ![p].tabla_antes = laboral,
                          ![p].fallo = k,
                          ![p].respuesta = RespuestaFallo]
    /\ pc' = [pc EXCEPT ![p] = "libre"]
    /\ lectura' = SinLectura
    /\ UNCHANGED << anio, reloj, solventaciones, peticiones, hechas, ultima, ult_par,
                    det_fase, det_entrada, det_salida, alias, web >>

\* cargas con fallos de almacenamiento
NextFallos ==
    \/ \E a \in EnviosLectura : Procesar("p1", a)
    \/ Comparar("p1")
    \/ Guardar("p1")
    \/ \E k \in 1..MaxFilas : GuardarConFallo("p1", k)

SpecFallos == Init /\ [][NextFallos]_vars

\* ------------------------------------------------------------------------
\* actualizar_estado / solventacion_detalle: actualizar_solventacion
\* ------------------------------------------------------------------------
Actualizar(rfc, estado, comentario, ente) ==
    /\ peticiones < MaxPeticiones
    /\ peticiones' = peticiones + 1
    /\ LET a == actualizar_solventacion(solventaciones, rfc, estado, comentario, ente, reloj)
       IN /\ solventaciones' = a.tabla
          /\ ultima' = [rfc |-> rfc, estado |-> estado, comentario |-> comentario,
                        ente |-> ente, filas |-> a.filas]
    /\ LET previas == { u \in ult_par : u.rfc = rfc /\ u.ente = EnteEfectivo(ente) }
           veces == IF previas = {} THEN 1 ELSE 1 + (CHOOSE u \in previas : TRUE).veces
       IN ult_par' = (ult_par \ previas)
                     \cup { [rfc |-> rfc, ente |-> EnteEfectivo(ente),
                             estado |-> EstadoEfectivo(estado),
                             comentario |-> comentario, veces |-> veces] }
    /\ lectura' = SinLectura
    /\ UNCHANGED << anio, reloj, laboral, pc, loc, hechas,
                    det_fase, det_entrada, alias, web, det_salida >>

\* ------------------------------------------------------------------------
\* Entorno: reloj y cambio de ejercicio
\* ------------------------------------------------------------------------
Tic ==
    /\ reloj < MaxReloj
    /\ reloj' = reloj + 1
    /\ UNCHANGED << anio, laboral, solventaciones, pc, loc, peticiones, hechas,
                    ultima, ult_par, det_fase, det_entrada, alias, web, det_salida, lectura >>

AnioNuevo ==
    /\ anio + 1 \in Anios
    /\ anio' = anio + 1
    /\ UNCHANGED << reloj, laboral, solventaciones, pc, loc, peticiones, hechas,
                    ultima, ult_par, det_fase, det_entrada, alias, web, det_salida, lectura >>

Next ==
    \/ \E p \in Procs, a \in Envios : Procesar(p, a)
    \/ \E p \in Procs : Comparar(p)
    \/ \E p \in Procs : Guardar(p)
    \/ \E r \in RfcSolv, s \in EstadosSolv, c \in ComentariosSolv, e \in EntesSolv :
          Actualizar(r, s, c, e)
    \/ Tic
    \/ AnioNuevo

Spec == Init /\ [][Next]_vars

\* ------------------------------------------------------------------------
\* Lecturas: detalle por RFC, vista agrupada y exportacion
\* ------------------------------------------------------------------------
\* GET /resultados/<rfc>
VerPorRfc(rfc) ==
    /\ lectura' = [op |-> "por_rfc", rfc |-> rfc, tokens |-> <<>>, ente |-> None]
    /\ UNCHANGED << anio, reloj, laboral, solventaciones, pc, loc, peticiones, hechas,
                    ultima, ult_par, det_fase, det_entrada, alias, web, det_salida >>

\* sesiones posibles: session["entes"] tal como la deja get_usuario
\* (tokens sin espacios y en mayusculas)
Sesiones ==
    { <<>>, << "TODOS" >>, << "ALL" >>, << "SEFIN" >>, << "ENTE_00003" >>,
      << "SEGOB", "SECRETARÍA DE EDUCACIÓN PÚBLICA" >> }

\* GET /resultados
VerPorEnte(entes_usuario) ==
    /\ lectura' = [op |-> "por_ente", rfc |-> None, tokens |-> entes_usuario, ente |-> None]
    /\ UNCHANGED << anio, reloj, laboral, solventaciones, pc, loc, peticiones, hechas,
                    ultima, ult_par, det_fase, det_entrada, alias, web, det_salida >>

\* GET /exportar_general?formato=json
ExportarGeneral ==
    /\ lectura' = [op |-> "exportar", rfc |-> None, tokens |-> <<>>, ente |-> None]
    /\ UNCHANGED << anio, reloj, laboral, solventaciones, pc, loc, peticiones, hechas,
                    ultima, ult_par, det_fase, det_entrada, alias, web, det_salida >>

\* entes elegibles en /exportar_por_ente
EntesExport == { "", "SEFIN", " sepe " }

\* GET /exportar_por_ente?ente=...&formato=json
ExportarPorEnte(ente_sel) ==
    /\ lectura' = [op |-> "exportar_ente", rfc |-> None, tokens |-> <<>>, ente |-> ente_sel]
    /\ UNCHANGED << anio, reloj, laboral, solventaciones, pc, loc, peticiones, hechas,
                    ultima, ult_par, det_fase, det_entrada, alias, web, det_salida >>

NextLectura ==
    \/ \E a \in EnviosLectura : Procesar("p1", a)
    \/ Comparar("p1")
    \/ Guardar("p1")
    \/ \E s \in EstadosPeticion, e \in EntesPeticion : Actualizar(RFC1, s, "ok", e)
    \/ \E r \in RfcLectura : VerPorRfc(r)
    \/ \E t \in Sesiones : VerPorEnte(t)
    \/ ExportarGeneral
    \/ \E e \in EntesExport : ExportarPorEnte(e)

SpecLectura == Init /\ [][NextLectura]_vars

\* cargas sucesivas de libros con una sola hoja o sin cruce, y exportacion
NextPartes ==
    \/ \E a \in EnviosPartes : Procesar("p1", a)
    \/ Comparar("p1")
    \/ Guardar("p1")
    \/ ExportarGeneral

SpecPartes == Init /\ [][NextPartes]_vars

\* lo que db_manager.obtener_resultados_por_rfc devuelve a la lectura en curso
RespuestaBd == obtener_resultados_por_rfc(laboral, lectura.rfc)

\* la respuesta de la lectura en curso: las lecturas no escriben y toda
\* escritura cierra la lectura, asi que se calcula sobre las tablas que el
\* manejador leyo
Respuesta ==
    CASE lectura.op = "por_rfc" ->
            resultados_por_rfc(laboral, solventaciones, lectura.rfc)
      [] lectura.op = "por_ente" ->
            reporte_por_ente(laboral, solventaciones, lectura.tokens)
      [] lectura.op = "exportar" ->
            exportar_excel_general(laboral, solventaciones)
      [] lectura.op = "exportar_ente" ->
            exportar_por_ente(laboral, solventaciones, lectura.ente)
      [] OTHER -> [status |-> 0]

\* ------------------------------------------------------------------------
\* Sesiones: login, logout y el middleware verificar_autenticacion
\* ------------------------------------------------------------------------
\* usuarios de poblar_datos_iniciales; la clave se guarda como sha256
Usuarios ==
    { [usuario |-> "odilia", clave |-> <<"sha256", "odilia2025">>],
      [usuario |-> "felipe", clave |-> <<"sha256", "felipe2025">>] }

\* LOWER(usuario) de SQLite sobre los nombres que aparecen en el modelo
LowerUsuario(u) ==
    CASE u = "ODILIA" -> "odilia"
      [] u = "Odilia" -> "odilia"
      [] OTHER -> u

\* get_usuario(usuario, clave): el usuario de la fila, o None
get_usuario(usuario, clave) ==
    IF Falsy(usuario) \/ Falsy(clave) THEN None
    ELSE LET filas == { u \in Usuarios : LowerUsuario(u.usuario) = LowerUsuario(usuario) }
         IN IF filas = {} THEN None
            ELSE LET row == CHOOSE u \in filas : TRUE
                 IN IF <<"sha256", clave>> # row.clave THEN None ELSE row.usuario

\* credenciales enviadas a POST /
Credenciales ==
    { <<"odilia", "odilia2025">>, <<"ODILIA", "odilia2025">>, <<"felipe", "felipe2025">>,
      <<"odilia", "felipe2025">>, <<"nadie", "odilia2025">>, <<"", "">> }

\* el middleware deja pasar la peticion
Pasa == [status |-> 0, destino |-> None]

\* middleware que deja pasar toda peticion
verificar_autenticacion_abierta(endpoint, autenticado, xhr) == Pasa

\* verificar_autenticacion(): 403 para JSON/XHR, si no redirect a login
verificar_autenticacion(endpoint, autenticado, xhr) ==
    IF endpoint \notin {"login", "static"} /\ ~autenticado
    THEN IF xhr THEN [status |-> 403, destino |-> None]
         ELSE [status |-> 302, destino |-> "login"]
    ELSE Pasa

\* la peticion se contesta sin ejecutar el manejador
Rechazar(g, endpoint, xhr) ==
    /\ web' = [web EXCEPT !.status = g.status, !.destino = g.destino,
                          !.endpoint = endpoint, !.xhr = xhr]
    /\ UNCHANGED << anio, reloj, laboral, solventaciones, pc, loc, peticiones, hechas,
                    ultima, ult_par, det_fase, det_entrada, det_salida, lectura, alias >>

\* before_request y despues el manejador de la ruta
Atender(endpoint, xhr, Manejador) ==
    LET g == verificar_autenticacion(endpoint, web.autenticado, xhr)
    IN IF g = Pasa THEN Manejador ELSE Rechazar(g, endpoint, xhr)

\* POST /: login
Login(usuario, clave) ==
    /\ LET user == get_usuario(Strip(usuario), Strip(clave))
       IN IF user = None
          THEN web' = [web EXCEPT !.status = 200, !.destino = None,
                                 !.endpoint = "login", !.xhr = FALSE]
          ELSE web' = [ autenticado |-> TRUE, usuario |-> user, status |-> 302,
                        destino |-> "dashboard", endpoint |-> "login", xhr |-> FALSE ]
    /\ UNCHANGED << anio, reloj, laboral, solventaciones, pc, loc, peticiones, hechas,
                    ultima, ult_par, det_fase, det_entrada, det_salida, lectura, alias >>

\* GET /logout: session.clear() y redirect a login
CerrarSesion ==
    /\ web' = [ autenticado |-> FALSE, usuario |-> None, status |-> 302,
                destino |-> "login", endpoint |-> "logout", xhr |-> FALSE ]
    /\ UNCHANGED << anio, reloj, laboral, solventaciones, pc, loc, peticiones, hechas,
                    ultima, ult_par, det_fase, det_entrada, det_salida, lectura, alias >>

Logout == Atender("logout", FALSE, CerrarSesion)

\* POST /upload_laboral: middleware, comprobacion propia de la sesion y carga
UploadLaboral(a, xhr) ==
    Atender("upload_laboral", xhr,
            IF ~web.autenticado
            THEN Rechazar([status |-> 403, destino |-> None], "upload_laboral", xhr)
            ELSE Procesar("p1", a))

\* POST /actualizar_estado (cuerpo JSON)
ActualizarEstado(s, e) ==
    Atender("actualizar_estado", TRUE, Actualizar(RFC1, s, "ok", e))

\* GET /resultados, /resultados/<rfc> y /exportar_general
VerResultados(xhr) == Atender("reporte_por_ente", xhr, VerPorEnte(<< "TODOS" >>))
ResultadosRfc(xhr) == Atender("resultados_por_rfc", xhr, VerPorRfc(RFC1))
ExportarExcel(xhr) == Atender("exportar_excel_general", xhr, ExportarGeneral)

InitSesion ==
    /\ anio = CHOOSE y \in Anios : \A z \in Anios : y <= z
    /\ InitComun
    /\ web = SinSesion
    /\ det_fase = "fin"
    /\ det_entrada = <<>>
    /\ det_salida = <<>>

NextSesion ==
    \/ \E c \in Credenciales : Login(c[1], c[2])
    \/ Logout
    \/ \E a \in {EnvioCruce, EnvioMismoEnte}, x \in BOOLEAN : UploadLaboral(a, x)
    \/ Comparar("p1")
    \/ Guardar("p1")
    \/ \E s \in {"Solventado", "No Solventado"}, e \in {None, "ENTE_00002"} :
          ActualizarEstado(s, e)
    \/ \E x \in BOOLEAN : VerResultados(x)
    \/ \E x \in BOOLEAN : ResultadosRfc(x)
    \/ \E x \in BOOLEAN : ExportarExcel(x)

SpecSesion == InitSesion /\ [][NextSesion]_vars

\* ------------------------------------------------------------------------
\* Resolucion de etiquetas de hoja: normalizar_ente_clave y procesar_archivos
\* ------------------------------------------------------------------------
\* etiquetas de hoja: clave, siglas o nombre de una entrada del catalogo, en
\* varias combinaciones de mayusculas y acentos, y una etiqueta desconocida
EtiquetasAlias ==
    { [etiqueta |-> "ENTE_00001", entrada |-> 1, tipo |-> "clave"],
      [etiqueta |-> "ente_00001", entrada |-> 1, tipo |-> "clave"],
      [etiqueta |-> "SEGOB", entrada |-> 1, tipo |-> "siglas"],
      [etiqueta |-> "segob", entrada |-> 1, tipo |-> "siglas"],
      [etiqueta |-> "Secretaría de Gobierno", entrada |-> 1, tipo |-> "nombre"],
      [etiqueta |-> "Secretaria de Gobierno", entrada |-> 1, tipo |-> "nombre"],
      [etiqueta |-> "ENTE_00002", entrada |-> 2, tipo |-> "clave"],
      [etiqueta |-> "ente_00002", entrada |-> 2, tipo |-> "clave"],
      [etiqueta |-> "SEFIN", entrada |-> 2, tipo |-> "siglas"],
      [etiqueta |-> "sefin", entrada |-> 2, tipo |-> "siglas"],
      [etiqueta |-> "Secretaría de Finanzas", entrada |-> 2, tipo |-> "nombre"],
      [etiqueta |-> "SECRETARÍA DE FINANZAS", entrada |-> 2, tipo |-> "nombre"],
      [etiqueta |-> "secretaría de finanzas", entrada |-> 2, tipo |-> "nombre"],
      [etiqueta |-> "Secretaria de Finanzas", entrada |-> 2, tipo |-> "nombre"],
      [etiqueta |-> "SECRETARIA DE FINANZAS", entrada |-> 2, tipo |-> "nombre"],
      [etiqueta |-> "secretaria de finanzas", entrada |-> 2, tipo |-> "nombre"],
      [etiqueta |-> "ENTE_00003", entrada |-> 3, tipo |-> "clave"],
      [etiqueta |-> "ente_00003", entrada |-> 3, tipo |-> "clave"],
      [etiqueta |-> "SEPE", entrada |-> 3, tipo |-> "siglas"],
      [etiqueta |-> "sepe", entrada |-> 3, tipo |-> "siglas"],
      [etiqueta |-> "Secretaría de Educación Pública", entrada |-> 3, tipo |-> "nombre"],
      [etiqueta |-> "Secretaria de Educacion Publica", entrada |-> 3, tipo |-> "nombre"],
      [etiqueta |-> "FOO", entrada |-> 0, tipo |-> "ninguno"] }

\* el libro de una hoja con la etiqueta dada y una fila del RFC
LibroAlias(etiqueta, activas) ==
    << Libro("alias.xlsx",
         << Hoja(etiqueta, columnas_base, QnaCols,
                 << Fila(RFC1, "CUPUL PUC A", QnaCols, activas) >>) >>) >>

InitAlias ==
    /\ anio = CHOOSE y \in Anios : \A z \in Anios : y <= z
    /\ reloj = 0
    /\ laboral = <<>>
    /\ solventaciones = {}
    /\ pc = [p \in Procs |-> "libre"]
    /\ loc = [p \in Procs |-> LocInicial]
    /\ peticiones = 0
    /\ hechas = {}
    /\ ultima = SinLlamada
    /\ ult_par = {}
    /\ lectura = SinLectura
    /\ web = SinSesion
    /\ det_fase = "fin"
    /\ det_entrada = <<>>
    /\ det_salida = <<>>
    /\ \E e \in EtiquetasAlias, a \in PatronesQna :
          alias = [ fase |-> "entrada", etiqueta |-> e.etiqueta, entrada |-> e.entrada,
                    tipo |-> e.tipo, activas |-> a, clave |-> None, hallazgos |-> <<>> ]

\* clave_ente = self.normalizar_ente_clave(etiqueta)
ResolverEtiqueta ==
    /\ alias.fase = "entrada"
    /\ alias' = [alias EXCEPT !.fase = "resuelta",
                              !.clave = normalizar_ente_clave(alias.etiqueta)]
    /\ UNCHANGED << anio, reloj, laboral, solventaciones, pc, loc, peticiones, hechas,
                    ultima, ult_par, det_fase, det_entrada, det_salida, lectura, web >>

\* procesar_archivos sobre el libro cuya hoja lleva la etiqueta
ProcesarHojaAlias ==
    /\ alias.fase = "resuelta"
    /\ alias' = [alias EXCEPT !.fase = "procesada",
                              !.hallazgos =
                                 procesar_archivos(LibroAlias(alias.etiqueta, alias.activas),
                                                   anio).resultados]
    /\ UNCHANGED << anio, reloj, laboral, solventaciones, pc, loc, peticiones, hechas,
                    ultima, ult_par, det_fase, det_entrada, det_salida, lectura, web >>

NextAlias == ResolverEtiqueta \/ ProcesarHojaAlias

SpecAlias == InitAlias /\ [][NextAlias]_vars

\* ------------------------------------------------------------------------
\* Detector sobre entradas acotadas: _cruces_quincenales y _empleados_sin_cruce
\* ------------------------------------------------------------------------
InitCruces ==
    /\ anio = CHOOSE y \in Anios : \A z \in Anios : y <= z
    /\ InitComun
    /\ web = SinSesion
    /\ det_fase = "entrada"
    /\ det_entrada \in EntradasDetector
    /\ det_salida = <<>>

\* resultados = self._cruces_quincenales(entes_rfc)
DetectarCruces ==
    /\ det_fase = "entrada"
    /\ det_salida' = cruces_quincenales(det_entrada, anio)
    /\ det_fase' = "cruces"
    /\ UNCHANGED << anio, reloj, laboral, solventaciones, pc, loc, peticiones, hechas,
                    ultima, ult_par, det_entrada, alias, web, lectura >>

\* resultados.extend(self._empleados_sin_cruce(entes_rfc, resultados))
AgregarSinCruce ==
    /\ det_fase = "cruces"
    /\ det_salida' = det_salida \o empleados_sin_cruce(det_entrada, det_salida)
    /\ det_fase' = "fin"
    /\ UNCHANGED << anio, reloj, laboral, solventaciones, pc, loc, peticiones, hechas,
                    ultima, ult_par, det_entrada, alias, web, lectura >>

NextCruces == DetectarCruces \/ AgregarSinCruce

SpecCruces == InitCruces /\ [][NextCruces]_vars

\* ------------------------------------------------------------------------
\* Celdas de quincena: de la hoja al detector
\* ------------------------------------------------------------------------
\* valores de una celda QNAn; NA es la celda vacia de pandas
ValoresCelda ==
    { NA, "", "   ", "0", " 0 ", "0.0", "NO", "no", " no ", "N/A", "n/a", "NA",
      "NONE", "none", "SI", "si", "1", "100.50" }

ValoresActivos == { "SI", "1", "100.50" }

\* una fila con el mismo valor en QNA1..QNA12
FilaCeldas(rfc, nombre, valor) ==
    [ RFC |-> rfc, NOMBRE |-> nombre, PUESTO |-> "AUXILIAR",
      FECHA_ALTA |-> "15/01/2020", FECHA_BAJA |-> NA, TOT_PERC |-> "1000",
      celdas |-> [q \in 1..12 |-> valor] ]

\* SEPE lista el RFC con QNA1..12 = a y SEFIN con QNA1..12 = v
LibroCeldas(a, v) ==
    << Libro("celdas.xlsx",
         << Hoja("SEPE", columnas_base, 1..12, << FilaCeldas(RFC1, "CUPUL PUC C", a) >>),
            Hoja("SEFIN", columnas_base, 1..12, << FilaCeldas(RFC1, "CUPUL PUC B", v) >>) >>) >>

InitCeldas ==
    /\ anio = CHOOSE y \in Anios : \A z \in Anios : y <= z
    /\ reloj = 0
    /\ alias = SinAlias
    /\ laboral = <<>>
    /\ solventaciones = {}
    /\ pc = [p \in Procs |-> "libre"]
    /\ \E a \in ValoresActivos, v \in ValoresCelda :
          loc = [p \in Procs |-> IF p = "p1"
                                 THEN [LocInicial EXCEPT !.archivos = LibroCeldas(a, v)]
                                 ELSE LocInicial]
    /\ peticiones = 0
    /\ hechas = {}
    /\ ultima = SinLlamada
    /\ ult_par = {}
    /\ lectura = SinLectura
    /\ web = SinSesion
    /\ det_fase = "hojas"
    /\ det_entrada = <<>>
    /\ det_salida = <<>>

\* bucles "for f in archivos" y "for hoja in xl.sheet_names": llenan entes_rfc
LeerHojas ==
    /\ det_fase = "hojas"
    /\ det_entrada' = LeerArchivos([entes_rfc |-> <<>>, alertas |-> <<>>],
                                   loc["p1"].archivos).entes_rfc
    /\ det_fase' = "entrada"
    /\ UNCHANGED << anio, reloj, laboral, solventaciones, pc, loc, peticiones, hechas,
                    ultima, ult_par, det_salida, lectura, alias, web >>

NextCeldas == LeerHojas \/ DetectarCruces \/ AgregarSinCruce

SpecCeldas == InitCeldas /\ [][NextCeldas]_vars

\* ------------------------------------------------------------------------
\* Propiedades del detector
\* ------------------------------------------------------------------------
EsCruce(h) == h.tipo_patron = "CRUCE_ENTRE_ENTES_QNA"
EsSinDuplicidad(h) == h.tipo_patron = "SIN_DUPLICIDAD"

\* quincena y ejercicio que nombra fecha_comun = "{YYYY}Q{NN}"
QnaDeFecha(fc) == fc[3] * 10 + fc[4]
AnioDeFecha(fc) == fc[1]

\* la fila r esta activa en la quincena q
ActivaEn(r, q) == q \in DOMAIN r.qnas /\ es_activo(r.qnas[q])

\* entes con alguna fila de "registros" activa en q
EntesEn(registros, q) == {r.ente : r \in {x \in Range(registros) : ActivaEn(x, q)}}

\* hallazgos de cruce emitidos para (rfc, q)
CrucesPara(salida, rfc, q) ==
    { i \in DOMAIN salida :
        /\ EsCruce(salida[i])
        /\ salida[i].rfc = rfc
        /\ AnioDeFecha(salida[i].fecha_comun) = anio
        /\ QnaDeFecha(salida[i].fecha_comun) = q }

DetectorListo == det_fase \in {"cruces", "fin"}

\* C1: por cada RFC con al menos 2 filas y cada quincena q de 1..24 se emite
\* exactamente un hallazgo CRUCE_ENTRE_ENTES_QNA para (RFC, q) si y solo si
\* al menos 2 entes distintos tienen una fila de ese RFC activa en q; un RFC
\* compartido por dos entes en QNA1..QNA12 da exactamente 12 hallazgos.
C1_UnCrucePorQuincena ==
    DetectorListo =>
        \A k \in DOMAIN det_entrada :
            LET e == det_entrada[k]
                cruzadas == {q \in QnaCols : Cardinality(EntesEn(e.registros, q)) >= 2}
            IN Len(e.registros) >= 2 =>
                 /\ \A q \in QnaCols :
                       Cardinality(CrucesPara(det_salida, e.rfc, q))
                         = (IF q \in cruzadas THEN 1 ELSE 0)
                 /\ Cardinality({i \in DOMAIN det_salida :
                                   EsCruce(det_salida[i]) /\ det_salida[i].rfc = e.rfc})
                      = Cardinality(cruzadas)

\* testigo de C1: dos entes comparten exactamente QNA1..QNA12 y hay 12 hallazgos
C1_Testigo ==
    /\ det_fase = "fin"
    /\ \E k \in DOMAIN det_entrada :
          LET e == det_entrada[k]
          IN /\ Len(e.registros) >= 2
             /\ {q \in QnaCols : Cardinality(EntesEn(e.registros, q)) = 2} = 1..12
             /\ Cardinality({i \in DOMAIN det_salida :
                               EsCruce(det_salida[i]) /\ det_salida[i].rfc = e.rfc}) = 12

\* lista de claves en orden estrictamente creciente (ordenada y sin repetidos)
OrdenadaSinRepetidos(entes) ==
    \A i, j \in DOMAIN entes : i < j => OrdenClave(entes[i]) < OrdenClave(entes[j])

CruceBienFormado(h) ==
    LET q == QnaDeFecha(h.fecha_comun)
    IN /\ Len(h.entes) >= 2
       /\ OrdenadaSinRepetidos(h.entes)
       /\ \A i \in DOMAIN h.entes :
             \E r \in Range(h.registros) : r.ente = h.entes[i] /\ ActivaEn(r, q)
       /\ \A r \in Range(h.registros) : ActivaEn(r, q)

\* C2: todo hallazgo CRUCE_ENTRE_ENTES_QNA emitido o guardado tiene al menos
\* 2 entes, entes ordenado y sin repetidos, cada ente de entes tiene una fila
\* en registros activa en la quincena de fecha_comun, y registros solo
\* contiene filas activas en esa quincena.
C2_CrucesBienFormados ==
    /\ \A i \in DOMAIN det_salida :
          EsCruce(det_salida[i]) => CruceBienFormado(det_salida[i])
    /\ \A p \in Procs : \A i \in DOMAIN loc[p].resultados :
          EsCruce(loc[p].resultados[i]) => CruceBienFormado(loc[p].resultados[i])
    /\ \A i \in DOMAIN laboral :
          EsCruce(laboral[i].datos) => CruceBienFormado(laboral[i].datos)

\* testigo de C2: un cruce emitido cuando el RFC tiene ademas una fila
\* inactiva en esa quincena, que queda fuera de registros
C2_Testigo ==
    /\ det_fase = "fin"
    /\ \E i \in DOMAIN det_salida :
          /\ EsCruce(det_salida[i])
          /\ Len(det_salida[i].entes) = 2
          /\ Len(det_salida[i].registros) = 2
          /\ \E k \in DOMAIN det_entrada :
                /\ det_entrada[k].rfc = det_salida[i].rfc
                /\ Len(det_entrada[k].registros) > Len(det_salida[i].registros)

\* C3: las filas de un mismo ente nunca forman un cruce: si todas las filas
\* de un RFC activas en una quincena son de un solo ente no hay hallazgo de
\* cruce para esa quincena, y un RFC cuyas filas vienen todas de un ente da
\* exactamente un SIN_DUPLICIDAD con entes = [ese ente].
C3_MismoEnteNoCruza ==
    DetectorListo =>
        \A k \in DOMAIN det_entrada :
            LET e == det_entrada[k]
                entes == {r.ente : r \in Range(e.registros)}
            IN /\ \A q \in QnaCols :
                     Cardinality(EntesEn(e.registros, q)) <= 1
                        => CrucesPara(det_salida, e.rfc, q) = {}
               /\ (det_fase = "fin" /\ Cardinality(entes) = 1) =>
                     /\ \A i \in DOMAIN det_salida :
                           det_salida[i].rfc = e.rfc => EsSinDuplicidad(det_salida[i])
                     /\ Cardinality({i \in DOMAIN det_salida : det_salida[i].rfc = e.rfc}) = 1
                     /\ \A i \in DOMAIN det_salida :
                           det_salida[i].rfc = e.rfc =>
                              /\ Len(det_salida[i].entes) = 1
                              /\ det_salida[i].entes[1] \in entes

\* testigo de C3: varias filas del mismo ente activas en la misma quincena
C3_Testigo ==
    /\ det_fase = "fin"
    /\ \E k \in DOMAIN det_entrada :
          LET e == det_entrada[k]
          IN /\ Len(e.registros) >= 2
             /\ Cardinality({r.ente : r \in Range(e.registros)}) = 1
             /\ \E q \in QnaCols : \A r \in Range(e.registros) : ActivaEn(r, q)
             /\ \E i \in DOMAIN det_salida :
                   det_salida[i].rfc = e.rfc /\ EsSinDuplicidad(det_salida[i])

\* ------------------------------------------------------------------------
\* Propiedades de la carga (upload_laboral) y de la tabla laboral
\* ------------------------------------------------------------------------
\* el proceso p termino una carga con archivos
CargaTerminada(p) ==
    pc[p] = "libre" /\ loc[p].archivos # <<>> /\ loc[p].respuesta.status # 0

\* la respuesta lleva total, new, duplicates y alerts, y no un error
RespuestaConCampos(r) == r.status = 200 /\ r.error = None

\* C4: la carga es idempotente: ingest(W) seguido de ingest(W) en el mismo
\* ejercicio responde new = 0 en la segunda llamada y deja la tabla de
\* hallazgos exactamente como estaba.
C4_CargaIdempotente ==
    \A p \in Procs :
        (CargaTerminada(p) /\ loc[p].previa) =>
            /\ RespuestaConCampos(loc[p].respuesta)
            /\ loc[p].respuesta.cuerpo.nuevos = 0
            /\ loc[p].nuevos_res = <<>>

\* la parte de C4 que el codigo cumple: la segunda carga no inserta filas
C4_SegundaCargaNoInserta ==
    [][ \A p \in Procs :
          (pc[p] = "comparado" /\ pc'[p] = "libre" /\ loc[p].previa)
             => laboral' = laboral ]_vars

\* C5: la respuesta de la carga siempre lleva total, new, duplicates y
\* alerts: para toda lista no vacia de libros upload_laboral responde con
\* esos campos y no con un error.
C5_RespuestaSiempreCompleta ==
    \A p \in Procs : CargaTerminada(p) => RespuestaConCampos(loc[p].respuesta)

\* C6: guardar_resultados inserta todo hallazgo cuya firma no esta en la
\* tabla, omite los que ya estan y devuelve el par (insertados, duplicados)
\* con insertados + duplicados = numero de hallazgos recibidos; una lista
\* vacia devuelve (0, 0).
C6_GuardarDevuelvePar ==
    \A p \in Procs :
        CargaTerminada(p) =>
            /\ \A i \in DOMAIN loc[p].nuevos_res :
                  \E k \in DOMAIN laboral :
                      laboral[k].hash_firma = loc[p].nuevos_res[i].hash_firma
            /\ loc[p].ret.tipo = "tuple"
            /\ Len(loc[p].ret.valor) = 2
            /\ loc[p].ret.valor[1] + loc[p].ret.valor[2] = Len(loc[p].nuevos_res)

\* la parte de C6 que el codigo cumple: inserta los nuevos, omite los que ya
\* estan y devuelve el numero de insertados
C6_GuardarDevuelveCuenta ==
    \A p \in Procs :
        CargaTerminada(p) =>
            /\ \A i \in DOMAIN loc[p].nuevos_res :
                  \E k \in DOMAIN laboral :
                      laboral[k].hash_firma = loc[p].nuevos_res[i].hash_firma
            /\ loc[p].ret.tipo = "int"
            /\ loc[p].ret.valor =
                 Cardinality({ i \in DOMAIN loc[p].nuevos_res :
                                 \A k \in DOMAIN loc[p].tabla_antes :
                                     loc[p].tabla_antes[k].hash_firma
                                        # loc[p].nuevos_res[i].hash_firma })

\* hallazgo sin el campo hash_firma
SinFirma(r) ==
    [ rfc |-> r.rfc, nombre |-> r.nombre, entes |-> r.entes,
      fecha_comun |-> r.fecha_comun, tipo_patron |-> r.tipo_patron,
      descripcion |-> r.descripcion, registros |-> r.registros,
      estado |-> r.estado, solventacion |-> r.solventacion ]

\* la firma de r ya esta en la tabla
FirmaEnTabla(tabla, r) ==
    \E k \in DOMAIN tabla : tabla[k].hash_firma = <<"sha256", r>>

\* C7: comparar_con_historico particiona el lote: cada hallazgo queda en
\* exactamente uno de nuevos / repetidos, esta en repetidos si y solo si su
\* firma ya esta en la tabla, n_rep = |repetidos|, y la llamada no escribe
\* (tablas laboral y solventaciones sin cambio).
C7_CompararParticiona ==
    [][ \A p \in Procs :
          (pc[p] = "procesado" /\ pc'[p] = "comparado") =>
             LET res == loc[p].resultados
                 nv == loc'[p].nuevos_res
                 rp == loc'[p].repetidos
             IN /\ Len(nv) + Len(rp) = Len(res)
                /\ \A i \in DOMAIN res :
                      /\ (res[i] \in Range(rp)) <=> FirmaEnTabla(laboral, res[i])
                      /\ (res[i] \in Range(rp)) <=>
                            ~(\E j \in DOMAIN nv : SinFirma(nv[j]) = res[i])
                /\ \A j \in DOMAIN nv : nv[j].hash_firma = <<"sha256", SinFirma(nv[j])>>
                /\ loc'[p].n_rep = Len(rp)
                /\ laboral' = laboral
                /\ solventaciones' = solventaciones ]_vars

\* testigo de C7: una comparacion que deja hallazgos en nuevos y en repetidos
C7_Testigo ==
    \E p \in Procs :
        /\ pc[p] = "comparado"
        /\ loc[p].nuevos_res # <<>>
        /\ loc[p].repetidos # <<>>
        /\ loc[p].n_rep = Len(loc[p].repetidos)

\* C8: los envios duplicados concurrentes son seguros: en cualquier
\* intercalado de cargas que emiten los mismos hallazgos la tabla nunca tiene
\* dos filas con la misma hash_firma, queda exactamente una fila por
\* hallazgo distinto (la del primero que escribe) y los INSERT de los
\* siguientes no hacen nada en lugar de fallar.
C8_DuplicadosConcurrentes ==
    /\ \A i, j \in DOMAIN laboral :
          laboral[i].hash_firma = laboral[j].hash_firma => i = j
    /\ \A p \in Procs :
          CargaTerminada(p) =>
             /\ \A i \in DOMAIN loc[p].resultados :
                   Cardinality({ k \in DOMAIN laboral :
                                   laboral[k].hash_firma
                                      = <<"sha256", loc[p].resultados[i]>> }) = 1
             /\ \A k \in DOMAIN loc[p].tabla_antes :
                   k \in DOMAIN laboral /\ laboral[k] = loc[p].tabla_antes[k]
             /\ loc[p].ret.tipo = "int"
             /\ loc[p].ret.valor =
                  Cardinality({ i \in DOMAIN loc[p].nuevos_res :
                                  \A k \in DOMAIN loc[p].tabla_antes :
                                      loc[p].tabla_antes[k].hash_firma
                                         # loc[p].nuevos_res[i].hash_firma })

\* testigo de C8: dos cargas del mismo envio comparan antes de que ninguna
\* guarde; la segunda en guardar no inserta nada
C8_Testigo ==
    \E p, q \in Procs :
        /\ p # q
        /\ CargaTerminada(p) /\ CargaTerminada(q)
        /\ loc[p].archivos = loc[q].archivos
        /\ loc[p].nuevos_res # <<>>
        /\ loc[p].nuevos_res = loc[q].nuevos_res
        /\ loc[q].ret.valor = 0
        /\ loc[p].ret.valor = Len(loc[p].nuevos_res)
        /\ Len(laboral) = Len(loc[p].nuevos_res)

\* ------------------------------------------------------------------------
\* Propiedades de las solventaciones
\* ------------------------------------------------------------------------
HuboLlamada == ultima.filas # 0

\* C9 (como esta escrita): para todo rfc, estado s, comentario c y ente,
\* tambien con ente o s nulos o vacios, justo despues de
\* update_solventacion(rfc, s, c, ente), get_estado(rfc, ente) devuelve s.
C9_GetDevuelveLoEscrito ==
    HuboLlamada =>
        get_estado_rfc_ente(solventaciones, ultima.rfc, ultima.ente) = {ultima.estado}

\* C9 (enmendada): justo despues de update_solventacion(rfc, s, c, ente) con
\* rfc no vacio, get_estado(rfc, e) devuelve t, donde e es ente, o GENERAL
\* si ente es nulo o vacio, y t es s, o "Sin valoracion" si s es nulo o
\* vacio; get_estado con ente nulo o vacio devuelve null.
C9_GetDevuelveLoGuardado ==
    HuboLlamada =>
        LET e == IF ultima.ente \in {None, ""} THEN "GENERAL" ELSE ultima.ente
            t == IF ultima.estado \in {None, ""} THEN "Sin valoración" ELSE ultima.estado
        IN /\ get_estado_rfc_ente(solventaciones, ultima.rfc, e) = {t}
           /\ ultima.ente \in {None, ""} =>
                 get_estado_rfc_ente(solventaciones, ultima.rfc, ultima.ente) = {None}

\* testigo de C9: una segunda actualizacion del mismo par, con ente y estado
\* vacios, sobre una fila GENERAL que ya existia
C9_Testigo ==
    /\ HuboLlamada
    /\ ultima.ente \in {None, ""}
    /\ ultima.estado = None
    /\ \E u \in ult_par : u.ente = "GENERAL" /\ u.veces = 2
    /\ \E f \in solventaciones : f.ente = "GENERAL" /\ f.estado = "Sin valoración"

\* filas de la tabla que no son del par (rfc, ente)
FilasDeOtros(tabla, rfc, ente) == {f \in tabla : ~(f.rfc = rfc /\ f.ente = ente)}

\* C10: las solventaciones son upserts donde gana el ultimo: tras cualquier
\* secuencia de update_solventacion la tabla tiene a lo mas una fila por
\* (rfc, ente), esa fila lleva el estado y comentario de la ultima
\* actualizacion confirmada de ese par, y actualizar un par nunca cambia la
\* fila de otro par.
C10_UltimoGana ==
    /\ [](\A f, g \in solventaciones : (f.rfc = g.rfc /\ f.ente = g.ente) => f = g)
    /\ [](\A u \in ult_par :
             \E f \in solventaciones :
                 /\ f.rfc = u.rfc /\ f.ente = u.ente
                 /\ f.estado = u.estado /\ f.comentario = u.comentario)
    /\ [](\A f \in solventaciones :
             \E u \in ult_par : f.rfc = u.rfc /\ f.ente = u.ente)
    /\ [][ solventaciones' # solventaciones =>
             LET e == IF ultima'.ente \in {None, ""} THEN "GENERAL" ELSE ultima'.ente
             IN FilasDeOtros(solventaciones', ultima'.rfc, e)
                   = FilasDeOtros(solventaciones, ultima'.rfc, e) ]_vars

\* testigo de C10: dos pares en la tabla, cada uno con su ultima actualizacion
C10_Testigo ==
    /\ Cardinality(solventaciones) = 2
    /\ \E f, g \in solventaciones :
          /\ f.ente = "GENERAL" /\ g.ente = "ENTE_00002"
          /\ f.estado # g.estado
          /\ f.comentario # g.comentario

\* testigo de C10 con sobrescritura: un par actualizado dos veces
C10_TestigoSobrescrito ==
    /\ Cardinality(solventaciones) = 1
    /\ \E u \in ult_par : u.veces = 2 /\ u.estado = "No Solventado"

\* ------------------------------------------------------------------------
\* Propiedades de los estados de solventacion y del detalle por RFC
\* ------------------------------------------------------------------------
EstadosDeAuditoria == {"Sin valoración", "Solventado", "No Solventado"}

\* C11: el estado guardado para cualquier (rfc, ente) es, tras cualquier
\* secuencia de actualizaciones de usuario, uno de "Sin valoracion",
\* "Solventado", "No Solventado"; "Mixto" nunca se escribe en la tabla.
C11_EstadosAlmacenados ==
    \A f \in solventaciones : f.estado \in EstadosDeAuditoria

\* la parte de C11 que el codigo cumple: ningun estado es terminal, toda
\* fila puede pasar a cualquier estado que llegue en una peticion
C11_SinEstadoTerminal ==
    \A f \in solventaciones, s \in EstadosDeAuditoria :
        \E g \in actualizar_solventacion(solventaciones, f.rfc, s, "ok", f.ente, reloj).tabla :
            g.rfc = f.rfc /\ g.ente = f.ente /\ g.estado = s

\* hallazgos guardados de un RFC
HallazgosDe(rfc) == { laboral[k].datos : k \in { i \in DOMAIN laboral : laboral[i].datos.rfc = rfc } }

\* entes de los registros guardados de un RFC
EntesDeRegistros(rfc) ==
    UNION { {r.ente : r \in Range(h.registros)} : h \in HallazgosDe(rfc) }

\* estados efectivos de un ente: el de su solventacion si existe; si no, el
\* de los hallazgos que lo traen
EstadosEfectivos(rfc, e) ==
    LET propias == {f \in solventaciones : f.rfc = rfc /\ f.ente = e}
    IN IF propias # {} THEN {f.estado : f \in propias}
       ELSE { h.estado : h \in {x \in HallazgosDe(rfc) :
                                   \E r \in Range(x.registros) : r.ente = e} }

\* C12: fusion de solventaciones en el detalle por RFC: el estado es "Mixto"
\* cuando los entes de los registros del RFC tienen estados efectivos
\* distintos (el de la solventacion del ente si existe, si no el del
\* hallazgo); cuando todos coinciden, el estado es ese valor comun.
C12_FusionMixto ==
    (lectura.op = "por_rfc" /\ ~Respuesta.info.nulo) =>
        LET E == UNION { EstadosEfectivos(lectura.rfc, e) :
                            e \in EntesDeRegistros(lectura.rfc) }
        IN /\ Cardinality(E) > 1 => Respuesta.info.estado = "Mixto"
           /\ Cardinality(E) = 1 => Respuesta.info.estado \in E

\* testigo de C12: escenario 4, ENTE_00002 Solventado y ENTE_00003 sin
\* solventacion; el detalle responde "Mixto"
C12_Testigo ==
    /\ lectura.op = "por_rfc"
    /\ lectura.rfc = RFC1
    /\ ~Respuesta.info.nulo
    /\ Respuesta.info.estado = "Mixto"
    /\ \E f \in solventaciones :
          f.rfc = RFC1 /\ f.ente = "ENTE_00002" /\ f.estado = "Solventado"
    /\ ~(\E f \in solventaciones : f.ente = "ENTE_00003")
    /\ "ENTE_00003" \in EntesDeRegistros(RFC1)

EntesQueCruzan(h) ==
    { a.ente : a \in { x \in Range(h.registros) :
                         \E y \in Range(h.registros), q \in QnaCols :
                             y.ente # x.ente /\ ActivaEn(x, q) /\ ActivaEn(y, q) } }

\* el RFC r aparece bajo el nombre de ente n en la vista
ListadoBajo(vista, n, r) ==
    /\ n \in DOMAIN vista.resultados
    /\ \E k \in DOMAIN vista.resultados[n] : vista.resultados[n][k].rfc = r

\* la tabla tiene un hallazgo de r con cruce real (>= 2 entes) que incluye a e
HayCruceRealCon(r, e) ==
    \E h \in HallazgosDe(r) :
        Cardinality(EntesQueCruzan(h)) >= 2 /\ e \in EntesQueCruzan(h)

\* la equivalencia de la vista bajo una nocion dada de acceso total
VistaCorrecta(acceso_total) ==
    \A r \in RfcLectura, e \in Claves :
        LET permitido == \/ acceso_total
                         \/ \E t \in DOMAIN lectura.tokens :
                               ente_match(lectura.tokens[t], << e >>)
        IN IF permitido
           THEN ListadoBajo(Respuesta, ente_display(e), r) <=> HayCruceRealCon(r, e)
           ELSE ~ListadoBajo(Respuesta, ente_display(e), r)

\* C16: vista agrupada: para toda lista de tokens, RFC r y ente e que el
\* usuario puede ver (acceso total, con TODOS o ALL, o un token que
\* coincide con e), r aparece bajo display(e) si y solo si la tabla tiene un
\* hallazgo de r cuyo entes_cruce_real tiene al menos 2 entes y contiene a
\* e; y no aparece ninguna fila bajo un ente no autorizado.
C16_VistaAgrupada ==
    lectura.op = "por_ente" => VistaCorrecta(allowed_all_con_all(lectura.tokens))

\* la parte de C16 que el codigo cumple: la misma equivalencia cuando el
\* acceso total es solo el centinela TODOS
C16_VistaConCentinelaTodos ==
    lectura.op = "por_ente" => VistaCorrecta(allowed_all(lectura.tokens))

\* estado alcanzado: un usuario de SEFIN ve el cruce de RFC1 bajo SEFIN y
\* nada bajo SEPE
C16_UsuarioDeUnEnte ==
    /\ lectura.op = "por_ente"
    /\ lectura.tokens = << "SEFIN" >>
    /\ ListadoBajo(Respuesta, "SEFIN", RFC1)
    /\ ~ListadoBajo(Respuesta, "SEPE", RFC1)
    /\ \E k \in DOMAIN Respuesta.resultados["SEFIN"] :
          Respuesta.resultados["SEFIN"][k].entes = {"SEPE"}

\* C17: has_full_access(tokens) es cierto si y solo si algun token, sin
\* espacios y en mayusculas, es TODOS o ALL; un usuario con cualquiera de
\* los dos centinelas ve todos los entes en la vista agrupada.
C17_AccesoTotal ==
    lectura.op = "por_ente" =>
        /\ allowed_all(lectura.tokens) <=>
              \E t \in DOMAIN lectura.tokens :
                  Upper(Strip(lectura.tokens[t])) \in {"TODOS", "ALL"}
        /\ (\E t \in DOMAIN lectura.tokens :
               Upper(Strip(lectura.tokens[t])) \in {"TODOS", "ALL"})
             => \A i \in DOMAIN Catalogo :
                   NombreCatalogo(i) \in DOMAIN Respuesta.resultados

\* la parte de C17 que el codigo cumple: el centinela TODOS da acceso total
C17_SoloTodos ==
    lectura.op = "por_ente" =>
        /\ allowed_all(lectura.tokens) <=>
              \E t \in DOMAIN lectura.tokens : Upper(Strip(lectura.tokens[t])) = "TODOS"
        /\ allowed_all(lectura.tokens)
             => \A i \in DOMAIN Catalogo :
                   NombreCatalogo(i) \in DOMAIN Respuesta.resultados

\* ------------------------------------------------------------------------
\* Propiedades de la exportacion plana
\* ------------------------------------------------------------------------
\* los hallazgos guardados
HallazgosGuardados == { laboral[i].datos : i \in DOMAIN laboral }

\* la clave de exportacion de una fila ya construida
ClaveDeFila(f) ==
    << f.RFC, sanitize_text(f.ente_origen_raw), f.Puesto, f.FechaAlta, f.FechaBaja,
       f.TotalPercepciones >>

\* hallazgos guardados en los que aparece el registro de la clave k
HallazgosConClave(k) ==
    { h \in HallazgosGuardados : \E reg \in Range(h.registros) : ClaveExport(h, reg) = k }

\* la columna Quincenas que corresponde a un conjunto de quincenas
ColumnaQuincenas(qs) ==
    IF Cardinality(qs) >= 24 THEN [texto |-> "Activo en Todo el Ejercicio", qnas |-> <<>>]
    ELSE IF qs = {} THEN [texto |-> "N/A", qnas |-> <<>>]
    ELSE [texto |-> "QNA", qnas |-> Ascendente(qs)]

HayExportacion == lectura.op = "exportar" /\ Respuesta.status = 200

\* C18: en la exportacion plana, para cada clave (rfc, ente_origen, puesto,
\* fecha_ingreso, fecha_egreso, monto) el conjunto de quincenas es la union
\* de los numeros de quincena de los hallazgos donde aparece el registro
\* (tomados de fecha_comun); la columna es "Activo en Todo el Ejercicio" con
\* 24 o mas, la lista ascendente "QNAi, QNAj, ..." si no, y "N/A" si vacio.
C18_QuincenasDeHallazgos ==
    HayExportacion =>
        \A i \in DOMAIN Respuesta.datos :
            LET f == Respuesta.datos[i]
                hs == { h \in HallazgosConClave(ClaveDeFila(f)) : h.fecha_comun # <<>> }
            IN f.Quincenas = ColumnaQuincenas({ QnaDeFecha(h.fecha_comun) : h \in hs })

\* lo que el codigo hace: el conjunto sale de las quincenas activas del
\* registro (las claves de reg["qnas"]) en los hallazgos donde aparece
C18_QuincenasDeRegistros ==
    HayExportacion =>
        \A i \in DOMAIN Respuesta.datos :
            LET f == Respuesta.datos[i]
                k == ClaveDeFila(f)
            IN f.Quincenas =
                 ColumnaQuincenas(UNION { UNION { DOMAIN reg.qnas :
                                                    reg \in { x \in Range(h.registros) :
                                                                ClaveExport(h, x) = k } } :
                                          h \in HallazgosConClave(k) })

\* un registro exportado con una quincena activa que no es de ningun cruce
C18_QuincenaSinCruce ==
    /\ HayExportacion
    /\ \E i \in DOMAIN Respuesta.datos :
          /\ Respuesta.datos[i].EnteOrigen = "SEPE"
          /\ Respuesta.datos[i].Quincenas = [texto |-> "QNA", qnas |-> << 3, 5 >>]

FilasConservadas(antes, despues) ==
    /\ Len(despues) >= Len(antes)
    /\ \A i \in DOMAIN antes :
          \E j \in DOMAIN despues :
              /\ despues[j].id = antes[i].id
              /\ despues[j].datos = antes[i].datos
              /\ despues[j].hash_firma = antes[i].hash_firma

\* C14: los hallazgos solo se agregan: tras cualquier secuencia de cargas,
\* update_solventacion, vista agrupada, detalle por RFC y exportaciones, toda
\* fila que estuvo en la tabla laboral sigue en ella con el mismo id, datos y
\* hash_firma; la carga solo agrega filas y update_solventacion solo cambia
\* la tabla solventaciones.
C14_SoloAgrega ==
    [][ /\ FilasConservadas(laboral, laboral')
        /\ (laboral' # laboral => solventaciones' = solventaciones)
        /\ (solventaciones' # solventaciones => laboral' = laboral)
        /\ (ultima' # ultima => laboral' = laboral)
        /\ ((pc' = pc /\ peticiones' = peticiones) =>
               (laboral' = laboral /\ solventaciones' = solventaciones)) ]_vars

\* testigo de C14: una segunda carga agrego filas tras las que ya estaban
\* y despues hubo una exportacion
C14_Testigo ==
    /\ lectura.op = "exportar"
    /\ loc["p1"].tabla_antes # <<>>
    /\ Len(laboral) > Len(loc["p1"].tabla_antes)
    /\ SubSeq(laboral, 1, Len(loc["p1"].tabla_antes)) = loc["p1"].tabla_antes
\* ------------------------------------------------------------------------
\* Orden de emision del detector
\* ------------------------------------------------------------------------
\* posicion en la que el RFC aparecio por primera vez en el lote
PrimeraAparicion(rfc) == CHOOSE k \in DOMAIN det_entrada : det_entrada[k].rfc = rfc

\* C15: dentro de una llamada de carga, la lista de hallazgos va en el orden
\* en que cada RFC aparecio por primera vez en los libros y hojas del lote y,
\* dentro de un RFC, por numero de quincena ascendente (QNA2 antes de QNA10);
\* los hallazgos se guardan (id ascendente) en ese mismo orden.
C15_OrdenDeEmision ==
    det_fase = "fin" =>
        \A i, j \in DOMAIN det_salida :
            i < j =>
                /\ PrimeraAparicion(det_salida[i].rfc) <= PrimeraAparicion(det_salida[j].rfc)
                /\ (/\ det_salida[i].rfc = det_salida[j].rfc
                    /\ EsCruce(det_salida[i]) /\ EsCruce(det_salida[j]))
                      => QnaDeFecha(det_salida[i].fecha_comun)
                           < QnaDeFecha(det_salida[j].fecha_comun)
\* ------------------------------------------------------------------------
\* Errores de entrada a nivel de hoja
\* ------------------------------------------------------------------------
\* la etiqueta de la hoja nombra un ente del catalogo
EtiquetaEnCatalogo(etiqueta) ==
    \E i \in DOMAIN Catalogo :
        Upper(Strip(etiqueta)) \in { Catalogo[i].siglas, Catalogo[i].clave,
                                     Upper(Catalogo[i].nombre) }

ColumnasRequeridas == {"RFC", "NOMBRE", "PUESTO", "FECHA_ALTA", "FECHA_BAJA"}

\* alertas del lote que nombran la hoja h del archivo a
AlertasDe(p, a, h) ==
    { i \in DOMAIN loc[p].alertas :
        loc[p].alertas[i].hoja = h.hoja /\ loc[p].alertas[i].archivo = a.filename }

\* alguna fila de la hoja h aparece (por su nombre) en un hallazgo del lote
FilasEnHallazgos(p, h) ==
    \E k \in DOMAIN h.filas, i \in DOMAIN loc[p].resultados :
        \E reg \in Range(loc[p].resultados[i].registros) :
            reg.nombre = Strip(h.filas[k].NOMBRE)

\* toda fila de la hoja h con RFC valido aparece en un hallazgo del lote
FilasProcesadas(p, h) ==
    \A k \in DOMAIN h.filas :
        ~Falsy(limpiar_rfc(h.filas[k].RFC)) =>
            \E i \in DOMAIN loc[p].resultados :
                /\ loc[p].resultados[i].rfc = limpiar_rfc(h.filas[k].RFC)
                /\ \E reg \in Range(loc[p].resultados[i].registros) :
                      reg.nombre = Strip(h.filas[k].NOMBRE)

\* C20: los errores de entrada de una hoja son alertas y nunca fatales: una
\* hoja cuya etiqueta no esta en el catalogo da exactamente una alerta
\* ente_no_encontrado y una hoja sin alguna de RFC, NOMBRE, PUESTO,
\* FECHA_ALTA, FECHA_BAJA da exactamente una alerta columnas_faltantes; en
\* ambos casos ninguna fila de la hoja aparece en un hallazgo y las demas
\* hojas del lote se procesan.
C20_AlertasPorHoja ==
    \A p \in Procs :
        \A x \in DOMAIN loc[p].archivos :
            LET a == loc[p].archivos[x]
            IN \A y \in DOMAIN a.hojas :
                 LET h == a.hojas[y]
                     tipos == { loc[p].alertas[i].tipo : i \in AlertasDe(p, a, h) }
                 IN IF ~EtiquetaEnCatalogo(h.hoja)
                    THEN /\ Cardinality(AlertasDe(p, a, h)) = 1
                         /\ tipos = {"ente_no_encontrado"}
                         /\ ~FilasEnHallazgos(p, h)
                    ELSE IF ~(ColumnasRequeridas \subseteq h.columnas)
                    THEN /\ Cardinality(AlertasDe(p, a, h)) = 1
                         /\ tipos = {"columnas_faltantes"}
                         /\ ~FilasEnHallazgos(p, h)
                    ELSE /\ AlertasDe(p, a, h) = {}
                         /\ FilasProcesadas(p, h)

\* testigo de C20: un lote con una hoja fuera del catalogo, una hoja sin
\* columnas requeridas y una hoja valida cuya fila llega a un hallazgo
C20_Testigo ==
    \E p \in Procs :
        /\ loc[p].archivos = EnvioAlertas
        /\ Len(loc[p].alertas) = 2
        /\ loc[p].alertas[1].tipo = "ente_no_encontrado"
        /\ loc[p].alertas[2].tipo = "columnas_faltantes"
        /\ \E i \in DOMAIN loc[p].resultados : loc[p].resultados[i].rfc = RFC2
        /\ \A i \in DOMAIN loc[p].resultados : loc[p].resultados[i].rfc # RFC1
\* ------------------------------------------------------------------------
\* Propiedades de la resolucion de etiquetas
\* ------------------------------------------------------------------------
\* C21: para toda entrada del catalogo, resolve aplicado a su clave, su
\* nombre o sus siglas, en cualquier combinacion de mayusculas y con o sin
\* acentos, devuelve la clave de esa entrada; por eso hojas etiquetadas con
\* cualquiera de los tres alias y el mismo contenido dan los mismos hallazgos.
C21_AliasEquivalentes ==
    (alias.fase \in {"resuelta", "procesada"} /\ alias.entrada # 0) =>
        /\ alias.clave = Catalogo[alias.entrada].clave
        /\ alias.fase = "procesada" =>
              alias.hallazgos =
                 procesar_archivos(LibroAlias(Catalogo[alias.entrada].clave, alias.activas),
                                   anio).resultados

\* lo que el codigo hace: la clave y las siglas resuelven en cualquier
\* combinacion de mayusculas; el nombre y la etiqueta desconocida dan null
C21_ClaveYSiglas ==
    alias.fase \in {"resuelta", "procesada"} =>
        /\ alias.tipo \in {"clave", "siglas"} =>
              /\ alias.clave = Catalogo[alias.entrada].clave
              /\ alias.fase = "procesada" =>
                    alias.hallazgos =
                       procesar_archivos(LibroAlias(Catalogo[alias.entrada].clave,
                                                    alias.activas), anio).resultados
        /\ alias.tipo \in {"nombre", "ninguno"} =>
              /\ alias.clave = None
              /\ alias.fase = "procesada" => alias.hallazgos = <<>>

\* una hoja etiquetada con siglas en minusculas llega a un hallazgo
C21_SiglasResueltas ==
    /\ alias.fase = "procesada"
    /\ alias.etiqueta = "sefin"
    /\ alias.clave = "ENTE_00002"
    /\ Len(alias.hallazgos) = 1
\* ------------------------------------------------------------------------
\* Fallos al guardar un lote
\* ------------------------------------------------------------------------
\* el hallazgo h esta guardado
Guardado(h) == \E i \in DOMAIN laboral : laboral[i].hash_firma = h.hash_firma

\* la carga del proceso p acaba de fallar al guardar
FalloAlGuardar(p) == pc[p] = "libre" /\ loc[p].fallo > 0

\* C22: cuando guardar un lote falla en un hallazgo con un error que no es
\* la violacion de unicidad de hash_firma, solo ese hallazgo se deshace: los
\* hallazgos del lote insertados antes del fallo quedan guardados y el error
\* llega a quien llamo.
C22_FalloParcial ==
    \A p \in Procs :
        FalloAlGuardar(p) =>
            /\ \A i \in DOMAIN loc[p].nuevos_res :
                  i < loc[p].fallo => Guardado(loc[p].nuevos_res[i])
            /\ loc[p].respuesta.status = 500

\* lo que el codigo hace: tras el fallo la tabla es la de antes de la llamada
\* y la respuesta es el error 500
C22_FalloDeshaceElLote ==
    \A p \in Procs :
        FalloAlGuardar(p) =>
            /\ laboral = loc[p].tabla_antes
            /\ loc[p].respuesta.status = 500

\* un lote de tres hallazgos nuevos cuyo tercer INSERT falla
C22_FalloEnElTercero ==
    /\ FalloAlGuardar("p1")
    /\ loc["p1"].fallo = 3
    /\ Len(loc["p1"].nuevos_res) = 3
\* ------------------------------------------------------------------------
\* Registros SIN_DUPLICIDAD y cobertura del lote
\* ------------------------------------------------------------------------
\* posiciones de det_salida con el registro SIN_DUPLICIDAD del RFC
SinDuplicidadDe(rfc) ==
    { i \in DOMAIN det_salida : EsSinDuplicidad(det_salida[i]) /\ det_salida[i].rfc = rfc }

\* posiciones de det_salida con un cruce del RFC
CrucesDe(rfc) ==
    { i \in DOMAIN det_salida : EsCruce(det_salida[i]) /\ det_salida[i].rfc = rfc }

HayAlgunCruce == \E i \in DOMAIN det_salida : EsCruce(det_salida[i])

\* C23: un RFC con menos de 2 filas recibe un unico registro SIN_DUPLICIDAD
\* (entes = sus entes distintos, registros = todas sus filas) solo si ningun
\* otro RFC del lote da un cruce; cuando algun RFC del lote da un cruce no
\* se emite SIN_DUPLICIDAD para los RFC de una sola fila.
C23_SinDuplicidadSoloSinCruces ==
    det_fase = "fin" =>
        \A k \in DOMAIN det_entrada :
            LET e == det_entrada[k]
            IN Len(e.registros) < 2 =>
                 /\ HayAlgunCruce => SinDuplicidadDe(e.rfc) = {}
                 /\ ~HayAlgunCruce =>
                       /\ Cardinality(SinDuplicidadDe(e.rfc)) = 1
                       /\ \A i \in SinDuplicidadDe(e.rfc) :
                             /\ det_salida[i].registros = e.registros
                             /\ Range(det_salida[i].entes) = {r.ente : r \in Range(e.registros)}

\* un lote donde un RFC de una sola fila convive con un RFC que cruza
C23_UnaFilaJuntoAUnCruce ==
    /\ det_fase = "fin"
    /\ HayAlgunCruce
    /\ \E k \in DOMAIN det_entrada :
          /\ Len(det_entrada[k].registros) = 1
          /\ Cardinality(SinDuplicidadDe(det_entrada[k].rfc)) = 1
\* ------------------------------------------------------------------------
\* Celdas inactivas
\* ------------------------------------------------------------------------
\* el valor de las celdas QNA1..12 de la fila de SEFIN
CeldaDeSefin == loc["p1"].archivos[1].hojas[2].filas[1].celdas[1]

\* la celda falta o su texto, sin espacios y en mayusculas, es uno de los
\* valores inactivos
CeldaInactiva(v) ==
    \/ v = NA
    \/ Upper(Strip(v)) \in {"", "0", "0.0", "NO", "N/A", "NA", "NONE"}

\* C24: una celda de quincena que falta o cuyo texto, sin espacios y en
\* mayusculas, es '', '0', '0.0', 'NO', 'N/A', 'NA' o 'NONE' no es activa y
\* cualquier otra (p. ej. 'SI', '1', '100.50') lo es; un RFC listado en un
\* ente con QNA1..12 activas y en un segundo ente con QNA1..12 inactivas hace
\* que la carga produzca cero hallazgos.
C24_CeldasInactivas ==
    det_fase = "fin" =>
        /\ es_activo(CeldaDeSefin) = ~CeldaInactiva(CeldaDeSefin)
        /\ CeldaInactiva(CeldaDeSefin) => det_salida = <<>>

\* lo que el codigo hace: el predicado es el descrito y, con el segundo ente
\* inactivo, no hay cruces pero si un registro SIN_DUPLICIDAD del RFC
C24_InactivasSinCruce ==
    det_fase = "fin" =>
        /\ es_activo(CeldaDeSefin) = ~CeldaInactiva(CeldaDeSefin)
        /\ CeldaInactiva(CeldaDeSefin) =>
              /\ ~HayAlgunCruce
              /\ Cardinality(SinDuplicidadDe(RFC1)) = 1
              /\ Len(det_salida) = 1
        /\ ~CeldaInactiva(CeldaDeSefin) => Cardinality(CrucesDe(RFC1)) = 12

\* el escenario de la afirmacion: SEFIN con QNA1..12 = 0
C24_SefinEnCero ==
    /\ det_fase = "fin"
    /\ CeldaDeSefin = "0"
    /\ Len(det_salida) = 1

\* el paso lo da una peticion contestada por el middleware o por login/logout
RespuestaDeSesion == web' # web

\* C25: mientras la sesion no esta autenticada ninguna peticion inicia una
\* carga, actualiza una solventacion ni ejecuta una lectura o exportacion: la
\* peticion se contesta con 403 (JSON/XHR) o con un redirect a login, nunca
\* con 500, y las tablas solo cambian por una carga aceptada antes con sesion;
\* tras logout la sesion queda sin autenticar.
C25_SinSesionNoEjecuta ==
    [][ /\ ~web.autenticado =>
             /\ peticiones' = peticiones
             /\ \A p \in DOMAIN pc : pc[p] = "libre" => pc'[p] = "libre" /\ loc'[p] = loc[p]
             /\ solventaciones' = solventaciones
             /\ lectura' \in {lectura, SinLectura}
             /\ laboral' # laboral => \E p \in DOMAIN pc : pc[p] = "comparado"
             /\ (RespuestaDeSesion /\ web'.endpoint # "login") =>
                    /\ ~web'.autenticado
                    /\ web'.status = (IF web'.xhr THEN 403 ELSE 302)
                    /\ web'.status = 302 => web'.destino = "login"
                    /\ laboral' = laboral
        /\ (RespuestaDeSesion /\ web'.endpoint = "logout") => ~web'.autenticado
      ]_vars

\* tras login, carga guardada y logout, una peticion XHR de carga recibe 403
C25_Testigo ==
    /\ ~web.autenticado
    /\ web.endpoint = "upload_laboral"
    /\ web.status = 403
    /\ laboral # <<>>
    /\ pc["p1"] = "libre"

\* hallazgos CRUCE_ENTRE_ENTES_QNA guardados del RFC en la quincena q
CrucesGuardados(rfc, q) ==
    { h \in HallazgosGuardados :
        /\ h.tipo_patron = "CRUCE_ENTRE_ENTES_QNA"
        /\ h.rfc = rfc
        /\ h.fecha_comun = FechaComun(anio, q) }

\* C26: la deteccion de cruces no depende de como se reparten las filas
\* entre cargas: si los hallazgos guardados contienen una fila del RFC en el
\* ente A activa en la quincena q y otra en un ente B distinto activa en q,
\* la tabla tiene un hallazgo CRUCE_ENTRE_ENTES_QNA del RFC y q con A y B.
C26_CruceEntreCargas ==
    \A h1, h2 \in HallazgosGuardados :
        \A r1 \in Range(h1.registros), r2 \in Range(h2.registros) :
            \A q \in QnaCols :
                ( /\ h1.rfc = h2.rfc
                  /\ r1.ente # r2.ente
                  /\ q \in DOMAIN r1.qnas
                  /\ q \in DOMAIN r2.qnas )
                => \E h \in CrucesGuardados(h1.rfc, q) :
                       {r1.ente, r2.ente} \subseteq Range(h.entes)

\* SEPE y SEFIN llegaron en cargas distintas, activos en QNA3, y no hay cruce
C26_CargasSeparadas ==
    /\ \E h \in HallazgosGuardados :
          h.rfc = RFC1 /\ h.entes = << "ENTE_00003" >> /\ 3 \in DOMAIN h.registros[1].qnas
    /\ \E h \in HallazgosGuardados :
          h.rfc = RFC1 /\ h.entes = << "ENTE_00002" >> /\ 3 \in DOMAIN h.registros[1].qnas
    /\ CrucesGuardados(RFC1, 3) = {}
    /\ pc["p1"] = "libre"

\* la carga del proceso p termino en la rama except de upload_laboral
CargaConError(p) == pc[p] = "libre" /\ loc[p].respuesta.status = 500

\* C27: cuando una carga contesta con error (HTTP 500) ningun hallazgo de
\* esa carga quedo guardado: la tabla de hallazgos es la misma que antes de
\* la llamada.
C27_ErrorSinGuardar ==
    CargaConError("p1") => laboral = loc["p1"].tabla_antes

\* una carga contestada con 500 cuyos hallazgos nuevos quedaron en la tabla
C27_ErrorConHallazgosGuardados ==
    /\ CargaConError("p1")
    /\ loc["p1"].fallo = 0
    /\ loc["p1"].nuevos_res # <<>>
    /\ \A i \in DOMAIN loc["p1"].nuevos_res : Guardado(loc["p1"].nuevos_res[i])
    /\ Len(laboral) = Len(loc["p1"].tabla_antes) + Len(loc["p1"].nuevos_res)

\* quincenas activas de las filas guardadas del RFC cuya sigla de ente es x
QnasGuardadasEn(rfc, x) ==
    UNION { UNION { DOMAIN reg.qnas :
                      reg \in { g \in Range(h.registros) : ente_sigla(EnteOrigen(g)) = x } } :
            h \in { d \in HallazgosGuardados : d.rfc = rfc } }

\* quincenas activas del registro de origen de una fila exportada
QnasDeOrigen(f) ==
    UNION { UNION { DOMAIN reg.qnas :
                      reg \in { g \in Range(h.registros) : ClaveExport(h, g) = ClaveDeFila(f) } } :
            h \in HallazgosConClave(ClaveDeFila(f)) }

\* C28: en cada fila de la exportacion plana, un ente X listado en "Entes
\* Incompatibilidad" para un registro del RFC con ente de origen E es distinto
\* de E y comparte al menos una quincena activa con E para ese RFC; nunca se
\* lista solo porque el RFC tiene filas alli en otras quincenas.
C28_IncompatiblesConQuincenaComun ==
    HayExportacion =>
        \A i \in DOMAIN Respuesta.datos :
            LET f == Respuesta.datos[i]
            IN \A x \in f.EntesIncompatibilidad :
                  /\ x # ente_sigla(f.ente_origen_raw)
                  /\ QnasDeOrigen(f) \cap QnasGuardadasEn(f.RFC, x) # {}

\* lo que el codigo hace: lista los entes, distintos del de origen, de todo
\* hallazgo guardado en el que aparece el registro
C28_IncompatiblesDeLosHallazgos ==
    HayExportacion =>
        \A i \in DOMAIN Respuesta.datos :
            LET f == Respuesta.datos[i]
            IN f.EntesIncompatibilidad =
                 { ente_sigla(e) :
                     e \in UNION { { c \in Range(h.entes) :
                                       sanitize_text(c) # sanitize_text(f.ente_origen_raw) } :
                                   h \in HallazgosConClave(ClaveDeFila(f)) } }

\* la fila de SEPE (activa en QNA3) lista a SEFIN, cuyas filas del RFC solo
\* estan activas en QNA5
C28_ListadoSinQuincenaComun ==
    /\ HayExportacion
    /\ \E i \in DOMAIN Respuesta.datos :
          /\ Respuesta.datos[i].EnteOrigen = "SEPE"
          /\ "SEFIN" \in Respuesta.datos[i].EntesIncompatibilidad
          /\ QnasDeOrigen(Respuesta.datos[i]) = {3}
          /\ QnasGuardadasEn(Respuesta.datos[i].RFC, "SEFIN") = {5}

\* C29: cobertura de un lote: en el resultado de una llamada, todo RFC con
\* al menos una fila valida aparece en algun hallazgo; un RFC recibe un
\* hallazgo SIN_DUPLICIDAD si y solo si no tiene ningun hallazgo
\* CRUCE_ENTRE_ENTES_QNA en ese lote, y entonces exactamente uno, con todas
\* sus filas como registros y sus entes distintos como entes; ningun RFC del
\* resultado falta en las filas de entrada.
C29_CoberturaDelLote ==
    det_fase = "fin" =>
        /\ \A k \in DOMAIN det_entrada :
              LET e == det_entrada[k]
              IN /\ CrucesDe(e.rfc) \cup SinDuplicidadDe(e.rfc) # {}
                 /\ SinDuplicidadDe(e.rfc) # {} <=> CrucesDe(e.rfc) = {}
                 /\ Cardinality(SinDuplicidadDe(e.rfc)) <= 1
                 /\ \A i \in SinDuplicidadDe(e.rfc) :
                       /\ det_salida[i].registros = e.registros
                       /\ Range(det_salida[i].entes) = {r.ente : r \in Range(e.registros)}
                       /\ Len(det_salida[i].entes) = Cardinality(Range(det_salida[i].entes))
        /\ \A i \in DOMAIN det_salida :
              \E k \in DOMAIN det_entrada : det_entrada[k].rfc = det_salida[i].rfc

\* un lote donde un RFC cruza y otro, con filas en dos entes que no
\* coinciden en ninguna quincena, recibe su unico SIN_DUPLICIDAD
C29_Testigo ==
    /\ det_fase = "fin"
    /\ HayAlgunCruce
    /\ \E k \in DOMAIN det_entrada :
          /\ Len(det_entrada[k].registros) >= 2
          /\ CrucesDe(det_entrada[k].rfc) = {}
          /\ \E i \in SinDuplicidadDe(det_entrada[k].rfc) : Len(det_salida[i].entes) = 2

\* filas de laboral con un cruce del RFC en la quincena y ejercicio fc
FilasDeCruce(rfc, fc) ==
    { i \in DOMAIN laboral :
        /\ laboral[i].tipo_analisis = "CRUCE_ENTRE_ENTES_QNA"
        /\ laboral[i].rfc = rfc
        /\ laboral[i].datos.fecha_comun = fc }

\* C30: un registro guardado por cruce detectado: tras cualquier secuencia
\* de cargas en un ejercicio, tambien al volver a cargar un libro en el que
\* cambio el nombre, el monto o las celdas de otras quincenas, la tabla tiene
\* a lo sumo un hallazgo CRUCE_ENTRE_ENTES_QNA por (rfc, fecha_comun).
C30_UnCrucePorRfcYQuincena ==
    \A i \in DOMAIN laboral :
        laboral[i].tipo_analisis = "CRUCE_ENTRE_ENTES_QNA" =>
            Cardinality(FilasDeCruce(laboral[i].rfc, laboral[i].datos.fecha_comun)) <= 1

\* lo que la tabla garantiza: a lo sumo una fila por contenido completo del
\* hallazgo (hash_firma)
C30_UnaFilaPorFirma ==
    \A i, j \in DOMAIN laboral :
        laboral[i].hash_firma = laboral[j].hash_firma => i = j

\* el cruce de QNA3 entre SEPE y SEFIN guardado dos veces: la fila de SEPE
\* esta activa solo en QNA3 en una carga y en QNA3 y QNA5 en la otra
C30_CruceGuardadoDosVeces ==
    /\ Cardinality(FilasDeCruce(RFC1, FechaComun(anio, 3))) = 2
    /\ \E i, j \in FilasDeCruce(RFC1, FechaComun(anio, 3)) :
          /\ laboral[i].datos.entes = laboral[j].datos.entes
          /\ laboral[i].datos.registros # laboral[j].datos.registros
====
